---- MODULE Spec2Model ----
(***************************************************************************)
(* A model of sshpod (pfnet-research/sshpod): the ProxyCommand helper that *)
(* stages an sshd inside a Kubernetes container, starts it and pumps the   *)
(* client's stdin/stdout through a kubectl port-forward.                   *)
(*                                                                         *)
(* Part I   the remote base directory, the sshd processes and the          *)
(*          server-start script (src/src/remote.rs, START_SSHD_SCRIPT),    *)
(*          run by ensure_sshd_running under its 40 s timeout.             *)
(* Part II  one proxy run (src/src/proxy.rs run), its port-forward         *)
(*          (src/src/port_forward.rs) and its pump (src/src/proxy_io.rs).  *)
(* Part III ensure_bundle and its install fallback chain                   *)
(*          (src/src/bundle.rs).                                           *)
(* Part IV  the pure functions: hostspec::parse (src/src/hostspec.rs),     *)
(*          select_pod, to_selector and the selector of                    *)
(*          choose_pod_for_job (src/src/kubectl.rs).                       *)
(* Part V   install::run and merge_config (src/src/install.rs).            *)
(* Part VI  install_host_keys (src/src/remote.rs).                         *)
(* Part VII the port of a Ready outcome: rand_port and the helper's parse  *)
(*          (src/src/remote.rs).                                           *)
(* Part VIII the namespace of the resolved target (src/src/proxy.rs        *)
(*          resolve_remote_target, src/src/kubectl.rs).                    *)
(* Part IX  the errors of choose_pod_for_deployment and choose_pod_for_job *)
(*          (src/src/kubectl.rs).                                          *)
(* Part X   exec_with_input (src/src/kubectl.rs).                          *)
(***************************************************************************)
EXTENDS Integers, Sequences, FiniteSets, TLC

(***************************************************************************)
(* Bounds of the model.                                                    *)
(***************************************************************************)
\* sshd daemons that get as far as daemonizing (each gets a fresh pid).
MaxProcs == 2
\* In the two-run specification, launches explored per run.
RaceLaunchCap == 1
\* ensure_bundle calls in a row on one container.
MaxCalls == 2

(***************************************************************************)
(* Program constants.                                                      *)
(***************************************************************************)
\* while [ $i -lt 30 ]
MaxAttempts == 30
\* while [ $j -lt 10 ]
MaxPolls == 10
\* timeout(Duration::from_secs(40), ...)
StartTimeoutSecs == 40
\* 20000 + (val % 45000)
PortBase == 20000
PortSpan == 45000

Helpers == {1, 2}
Pids == 1..MaxProcs
NoPid == 0
NoPort == 0
\* 16-bit values read from /dev/urandom: ports 31415 and 20000.
RandVals == {11415, 45000}
VARIABLES
    shared_key  \* the helpers run from one ~/.cache/sshpod: they read the same key

VARIABLES
    hk_path,    \* the inode each path of hostkeys/ names (NoIno: no such file)
    hk_ino,     \* the lines of each inode
    hk_pc,      \* per helper: position in the install_host_keys script
    hk_fd,      \* per helper: the inode its redirection has open
    hk_res,     \* per helper: what install_host_keys returned
    hk_runs,    \* per helper: install_host_keys calls so far
    hk_start    \* per helper: the directory when its run began

\* The key line ssh-keygen wrote into each helper's id_ed25519.pub.
KeyOf(h) == IF h = 1 \/ shared_key THEN "keyA" ELSE "keyB"
\* local_key.public: read_to_string of id_ed25519.pub, the key line with the
\* newline that ends it.  A text is the sequence of its pieces between
\* newlines, so this one is the key line and the empty piece after it.
PUBKEY_LINE(h) == <<KeyOf(h), "">>

VARIABLES
    fs,         \* files of the base directory
    procs,      \* sshd processes started from the base directory, by pid
    spc,        \* per run: position in START_SSHD_SCRIPT
    i, j, PORT, \* per run: the script's variables
    fd3,        \* per run: what the script wrote to fd 3 (NoPort: nothing)
    launches,   \* per run: servers launched (line 244 executed)
    hst,        \* per helper: ensure_sshd_running: "idle", "waiting", "done"
    hres,       \* per helper: its result
    clock,      \* per helper: seconds since the exec was spawned
    child       \* per helper: the kubectl exec subprocess

VARIABLES
    rpc,              \* proxy::run: the step it is at
    log,              \* the steps completed so far, with outcome and value
    remote_port,      \* what ensure_sshd_running returned
    fwd_remote_port,  \* the :<remote_port> of the port-forward command line
    local_port,       \* what PortForward::start returned
    conn_port,        \* the port TcpStream::connect was given
    sshd_exec,        \* the kubectl exec subprocess of ensure_sshd_running
    pf_child,         \* the kubectl port-forward subprocess
    stdout_task,      \* PortForward.stdout_task
    stderr_task,      \* PortForward.stderr_task
    to_remote,        \* the stdin -> socket copy task
    from_remote,      \* the socket -> stdout copy task
    pump_result,      \* what proxy_io::pump returned
    stop_result,      \* what PortForward::stop returned
    run_result        \* what proxy::run returned

VARIABLES
    bpc,            \* ensure_bundle: the stage it is at
    arch,           \* the arch detect_remote_arch returned
    has_xz,         \* `command -v xz` succeeds in the container
    has_gzip,       \* `command -v gzip` succeeds in the container
    payload_valid,  \* the xz payload decompresses
    bundle,         \* the container's bundle/VERSION, bundle/ARCH, bundle/sshd
    sshd_data,      \* the memoized decompressed payload
    decompressions, \* calls of decompress_xz so far
    plain_calls,    \* what each ensure_plain_data call of this ensure_bundle did
    xz_err,         \* the xz attempt's error
    gzip_err,       \* the gzip attempt's error
    bres,           \* what ensure_bundle returned
    piped,          \* the install commands this call has run, with their stdin
    calls,          \* ensure_bundle calls begun so far
    started         \* the bundle files when this call began, and the previous
                    \* call's outcome

VARIABLES
    lock,            \* what the lock attempt came to
    container_uid,   \* the container's effective uid
    container_user,  \* the container's effective login name
    login_user,      \* the requested login user
    id_exec          \* kubectl exec of `id` can run

VARIABLES
    stops,           \* calls of PortForward::stop begun so far
    stop_trace,      \* what the calls of stop did to the subprocess and tasks
    stdin_read,      \* bytes the stdin -> socket copy has read from stdin
    sock_written,    \* bytes it has written to the socket
    sock_read,       \* bytes the socket -> stdout copy has read from the socket
    stdout_written,  \* bytes it has written to stdout
    write_half,      \* the socket's write half: "open" or "shutdown"
    stdout_flushed,  \* stdout was flushed after the last write
    reported,        \* the byte counters pump printed (NoReport: none)
    pump_order       \* the directions that ended, in the order they ended

VARIABLES
    host_tokens,     \* the tokens of the hostname parse is given
    host_suffix,     \* it ends in ".sshpod"
    host,            \* the hostname, with the dots put into it
    parsed,          \* what parse returned (NotParsed: not called)
    pods,            \* the pods kubectl listed for the selector
    selected,        \* what select_pod returned (NotSelected: not called)
    sel_in,          \* the LabelSelector to_selector is given
    sel_out,         \* what to_selector returned (NotRendered: not called)
    job,             \* the spec of the job choose_pod_for_job fetched
    job_sel,         \* the selector it came to (NotRendered: not yet)
    want_container,  \* host.container: the container the hostname names
    pod_containers,  \* pod_info.containers: the names of the pod's containers
    target_container \* target.container (NoContainer: not resolved)

VARIABLES
    config_exists,   \* ~/.ssh/config exists
    config,          \* its text
    backups,         \* the config.bak.<timestamp> copies made
    installed,       \* how the last `sshpod install` ended (NotInstalled: none ran)
    bare_cr          \* str::lines drops a carriage return that ends the text

VARIABLES
    urandom,         \* the 16-bit value rand_port reads from /dev/urandom
    chosen_port,     \* $PORT of the launch loop (NoPort: not chosen yet)
    port_output,     \* what the script wrote to descriptor 3
    port_result,     \* what the helper's parse made of it (None: an error)
    port_pc          \* "off", "rand_port", "Ready", "parse", "done"

VARIABLES
    kubeconfig,      \* the kubeconfig: its contexts' namespaces, its current context
    hs,              \* the HostSpec's context and namespace
    ns_pc,           \* "off", "ensure_context", "namespace", "done"
    validated,       \* the contexts ensure_context_exists was called with
    target_namespace,\* the namespace of the resolved target
    ns_res           \* "none", "Ok", "Err"

VARIABLES
    wl,              \* a workload: its kind, its selector, the pods the selector
                     \* matches, the ready resources of its kind in the namespace
    choose_pc,       \* "off", "fetch", "select_pod", "done"
    choose_res       \* what choose_pod_for_<kind> returned

VARIABLES
    ex_pc,           \* "off", "spawn", "write_all", "drop_stdin", "wait_with_output", "done"
    reads_stdin,     \* the subprocess reads its stdin to the end before it exits with 0
    ex_stdout,       \* what the subprocess writes to its stdout
    ex_stdin,        \* the helper's end of the stdin pipe: "none", "open", "closed"
    ex_child,        \* the subprocess: "none", "running", "exited", "reaped"
    ex_status,       \* its exit status
    ex_written,      \* how many bytes of the input went into the pipe
    input_err,       \* input_err: the error of write_all, if any
    ex_calls,        \* what exec_with_input has done so far, in order
    ex_res           \* what exec_with_input returned

scriptVars == <<fs, procs, spc, i, j, PORT, fd3, launches, hst, hres, clock, child>>
identVars == <<container_uid, container_user, login_user, id_exec>>
stopVars == <<stops, stop_trace>>
pumpVars == <<stdin_read, sock_written, sock_read, stdout_written, write_half,
              stdout_flushed, reported, pump_order>>
proxyVars == <<rpc, log, remote_port, fwd_remote_port, local_port, conn_port, sshd_exec,
               pf_child, stdout_task, stderr_task, to_remote, from_remote,
               pump_result, stop_result, run_result, lock, identVars, stopVars, pumpVars>>
bundleVars == <<bpc, arch, has_xz, has_gzip, payload_valid, bundle, sshd_data,
                decompressions, plain_calls, xz_err, gzip_err, bres, piped, calls, started>>
hostspecVars == <<host_tokens, host_suffix, host, parsed>>
podVars == <<pods, selected>>
selectorVars == <<sel_in, sel_out>>
jobVars == <<job, job_sel>>
resolveVars == <<want_container, pod_containers, target_container>>
installVars == <<config_exists, config, backups, installed, bare_cr>>
nsVars == <<kubeconfig, hs, ns_pc, validated, target_namespace, ns_res>>
chooseVars == <<wl, choose_pc, choose_res>>
execVars == <<ex_pc, reads_stdin, ex_stdout, ex_stdin, ex_child, ex_status, ex_written,
              input_err, ex_calls, ex_res>>
portVars == <<urandom, chosen_port, port_output, port_result, port_pc>>
fnVars == <<hostspecVars, podVars, selectorVars, jobVars, resolveVars, installVars, portVars, nsVars, chooseVars, execVars>>
keyVars == <<shared_key>>
hostKeyVars == <<hk_path, hk_ino, hk_pc, hk_fd, hk_res, hk_runs, hk_start>>
vars == <<scriptVars, keyVars, hostKeyVars, proxyVars, bundleVars, fnVars>>
\* What the steps of each part leave alone.
nonScriptVars == <<keyVars, hostKeyVars, proxyVars, bundleVars, fnVars>>
nonProxyVars == <<scriptVars, keyVars, hostKeyVars, bundleVars, fnVars>>
nonBundleVars == <<scriptVars, keyVars, hostKeyVars, proxyVars, fnVars>>
nonFnVars == <<scriptVars, keyVars, hostKeyVars, proxyVars, bundleVars>>
nonHostKeyVars == <<scriptVars, keyVars, proxyVars, bundleVars, fnVars>>
nonHostspecVars == <<nonFnVars, podVars, selectorVars, jobVars, resolveVars, installVars, portVars, nsVars, chooseVars, execVars>>
nonPodVars == <<nonFnVars, hostspecVars, selectorVars, jobVars, resolveVars, installVars, portVars, nsVars, chooseVars, execVars>>
nonSelectorVars == <<nonFnVars, hostspecVars, podVars, jobVars, resolveVars, installVars, portVars, nsVars, chooseVars, execVars>>
nonJobVars == <<nonFnVars, hostspecVars, podVars, selectorVars, resolveVars, installVars, portVars, nsVars, chooseVars, execVars>>
nonInstallVars == <<nonFnVars, hostspecVars, podVars, selectorVars, jobVars, resolveVars, portVars, nsVars, chooseVars, execVars>>
nonPortVars == <<nonFnVars, hostspecVars, podVars, selectorVars, jobVars, resolveVars, installVars, nsVars, chooseVars, execVars>>
nonNsVars == <<nonFnVars, hostspecVars, podVars, selectorVars, jobVars, resolveVars, installVars, portVars, chooseVars, execVars>>
nonChooseVars == <<nonFnVars, hostspecVars, podVars, selectorVars, jobVars, resolveVars, installVars, portVars, nsVars, execVars>>
nonExecVars == <<nonFnVars, hostspecVars, podVars, selectorVars, jobVars, resolveVars, installVars, portVars, nsVars, chooseVars>>

\* rand_port
\* rand_port without the reduction modulo 45000.
rand_port_unreduced(val) == PortBase + val
rand_port(val) == PortBase + (val % PortSpan)

\* kill -0 <pid>
Alive(pid) == pid \in Pids /\ procs[pid].st \in {"starting", "listening"}

\* [ -f sshd.pid ] && kill -0 "$(cat sshd.pid)"
PidFileLive == fs.sshd_pid # NoPid /\ Alive(fs.sshd_pid)

Terminal == {"Reuse", "Ready", "GiveUp", "NoHostKey", "Aborted"}

FreshProcs == [p \in Pids |-> [st |-> "unborn", port |-> NoPort]]

\* The base directory before a helper run: never used (with or without the
\* host key), or left by an earlier run whose server (pid 1), listening on
\* the port saved in sshd.port, is still running or has died since.
InitScript ==
    /\ \/ /\ fs = [authorized_keys |-> <<>>, hostkey |-> TRUE, sshd_pid |-> NoPid,
                   sshd_port |-> NoPort, sshd_config |-> NoPort]
          /\ procs = FreshProcs
       \/ /\ fs = [authorized_keys |-> <<>>, hostkey |-> FALSE, sshd_pid |-> NoPid,
                   sshd_port |-> NoPort, sshd_config |-> NoPort]
          /\ procs = FreshProcs
       \/ \E v \in RandVals, s \in {"listening", "dead"} :
            /\ fs = [authorized_keys |-> PUBKEY_LINE(1), hostkey |-> TRUE, sshd_pid |-> 1,
                     sshd_port |-> rand_port(v), sshd_config |-> rand_port(v)]
            /\ procs = [FreshProcs EXCEPT ![1] = [st |-> s, port |-> rand_port(v)]]
    /\ spc = [h \in Helpers |-> "off"]
    /\ i = [h \in Helpers |-> 0]
    /\ j = [h \in Helpers |-> 0]
    /\ PORT = [h \in Helpers |-> NoPort]
    /\ fd3 = [h \in Helpers |-> NoPort]
    /\ launches = [h \in Helpers |-> 0]
    /\ hst = [h \in Helpers |-> "idle"]
    /\ hres = [h \in Helpers |-> [kind |-> "none", port |-> NoPort]]
    /\ clock = [h \in Helpers |-> 0]
    /\ child = [h \in Helpers |-> "none"]


(***************************************************************************)
(* ensure_sshd_running: the helper's side of the exec.                     *)
(***************************************************************************)
\* The exec of `sh -s -- base login_user pubkey_line` is spawned and the
\* timeout's timer armed.
EnsureStart(h) ==
    /\ hst[h] = "idle"
    /\ hst' = [hst EXCEPT ![h] = "waiting"]
    /\ child' = [child EXCEPT ![h] = "running"]
    /\ clock' = [clock EXCEPT ![h] = 0]
    /\ spc' = [spc EXCEPT ![h] = "AuthorizedKeys"]
    /\ UNCHANGED <<fs, procs, i, j, PORT, fd3, launches, hres>>
    /\ UNCHANGED nonScriptVars

\* output.trim().parse::<u16>()
ParsesAsU16(out) == out \in 0..65535

\* exec_with_input's wait_with_output returns: the script ended.  A zero exit
\* status gives the fd 3 output, parsed as the port; any other gives
\* "kubectl exec failed".
ExecReturn(h) ==
    /\ hst[h] = "waiting"
    /\ spc[h] \in Terminal
    /\ hst' = [hst EXCEPT ![h] = "done"]
    /\ child' = [child EXCEPT ![h] = "reaped"]
    /\ hres' = [hres EXCEPT ![h] =
                 IF spc[h] \in {"Reuse", "Ready"}
                 THEN IF ParsesAsU16(fd3[h])
                      THEN [kind |-> "Ok", port |-> fd3[h]]
                      ELSE [kind |-> "BadOutput", port |-> NoPort]
                 ELSE [kind |-> "ExecFailed", port |-> NoPort]]
    /\ UNCHANGED <<fs, procs, spc, i, j, PORT, fd3, launches, clock>>
    /\ UNCHANGED nonScriptVars

\* The 40 s elapse first: "starting sshd timed out after 40s".  The exec
\* future is dropped; the Child in it is dropped without kill or wait.
EnsureTimeout(h) ==
    /\ hst[h] = "waiting"
    /\ clock[h] >= StartTimeoutSecs
    /\ hst' = [hst EXCEPT ![h] = "done"]
    /\ hres' = [hres EXCEPT ![h] = [kind |-> "TimedOut", port |-> NoPort]]
    /\ UNCHANGED <<fs, procs, spc, i, j, PORT, fd3, launches, clock, child>>
    /\ UNCHANGED nonScriptVars

(***************************************************************************)
(* START_SSHD_SCRIPT, one action per command that reads or writes the base *)
(* directory.                                                              *)
(***************************************************************************)
At(h, label) == spc[h] = label
Goto(h, label) == spc' = [spc EXCEPT ![h] = label]

\* grep -qxF "$PUBKEY_LINE" authorized_keys || ...  grep takes its pattern
\* argument as a newline-separated list of patterns; with -x -F a line
\* matches when it equals one of them.
HasLine(lines, line) == \E n \in 1..Len(lines) : lines[n] = line
GrepsAny(lines, patterns) == \E k \in 1..Len(patterns) : HasLine(lines, patterns[k])

AuthKeysGrep(h) ==
    /\ At(h, "AuthorizedKeys")
    /\ Goto(h, IF GrepsAny(fs.authorized_keys, PUBKEY_LINE(h))
               THEN "HostKeyCheck" ELSE "AppendKey")
    /\ UNCHANGED <<fs, procs, i, j, PORT, fd3, launches, hst, hres, clock, child>>
    /\ UNCHANGED nonScriptVars

\* ... || printf '%s\n' "$PUBKEY_LINE" >> authorized_keys
AuthKeysAppend(h) ==
    /\ At(h, "AppendKey")
    /\ fs' = [fs EXCEPT !.authorized_keys = @ \o PUBKEY_LINE(h)]
    /\ Goto(h, "HostKeyCheck")
    /\ UNCHANGED <<procs, i, j, PORT, fd3, launches, hst, hres, clock, child>>
    /\ UNCHANGED nonScriptVars

\* if [ ! -f hostkeys/ssh_host_ed25519_key ]; then ... exit 1
HostKeyCheck(h) ==
    /\ At(h, "HostKeyCheck")
    /\ Goto(h, IF fs.hostkey THEN "Probe" ELSE "NoHostKey")
    /\ UNCHANGED <<fs, procs, i, j, PORT, fd3, launches, hst, hres, clock, child>>
    /\ UNCHANGED nonScriptVars

\* if [ -f sshd.pid ] && kill -0 "$(cat sshd.pid)" && [ -f sshd.port ]
ProbeRunning == PidFileLive /\ fs.sshd_port # NoPort

\* A probe that enters the launch loop whatever it finds.
ProbeAlwaysLaunches(h) ==
    /\ At(h, "Probe")
    /\ Goto(h, "Allocate") /\ i' = [i EXCEPT ![h] = 0]
    /\ UNCHANGED <<fs, procs, j, PORT, fd3, launches, hst, hres, clock, child>>
    /\ UNCHANGED nonScriptVars

\* The probe; when it fails, i=0 and the launch loop is entered.
Probe(h) ==
    /\ At(h, "Probe")
    /\ IF ProbeRunning
       THEN Goto(h, "ReuseEmit") /\ UNCHANGED i
       ELSE Goto(h, "Allocate") /\ i' = [i EXCEPT ![h] = 0]
    /\ UNCHANGED <<fs, procs, j, PORT, fd3, launches, hst, hres, clock, child>>
    /\ UNCHANGED nonScriptVars

\* cat sshd.port >&3; exit 0
ReuseEmit(h) ==
    /\ At(h, "ReuseEmit")
    /\ fd3' = [fd3 EXCEPT ![h] = fs.sshd_port]
    /\ Goto(h, "Reuse")
    /\ UNCHANGED <<fs, procs, i, j, PORT, launches, hst, hres, clock, child>>
    /\ UNCHANGED nonScriptVars

\* while [ $i -lt 30 ]; do i=$((i+1)); PORT="$(rand_port)"
Allocate(h) ==
    /\ At(h, "Allocate")
    /\ i[h] < MaxAttempts
    /\ i' = [i EXCEPT ![h] = @ + 1]
    /\ \E val \in RandVals : PORT' = [PORT EXCEPT ![h] = rand_port(val)]
    /\ Goto(h, "WriteConfig")
    /\ UNCHANGED <<fs, procs, j, fd3, launches, hst, hres, clock, child>>
    /\ UNCHANGED nonScriptVars

\* The loop ends: echo "sshd did not start" >&2; exit 1
GiveUp(h) ==
    /\ At(h, "Allocate")
    /\ ~(i[h] < MaxAttempts)
    /\ Goto(h, "GiveUp")
    /\ UNCHANGED <<fs, procs, i, j, PORT, fd3, launches, hst, hres, clock, child>>
    /\ UNCHANGED nonScriptVars

\* cat > sshd_config <<EOF ... Port $PORT ... (and the environment files)
WriteConfig(h) ==
    /\ At(h, "WriteConfig")
    /\ fs' = [fs EXCEPT !.sshd_config = PORT[h]]
    /\ Goto(h, "RemovePid")
    /\ UNCHANGED <<procs, i, j, PORT, fd3, launches, hst, hres, clock, child>>
    /\ UNCHANGED nonScriptVars

\* rm -f sshd.pid
RemovePid(h) ==
    /\ At(h, "RemovePid")
    /\ fs' = [fs EXCEPT !.sshd_pid = NoPid]
    /\ Goto(h, "Launch")
    /\ UNCHANGED <<procs, i, j, PORT, fd3, launches, hst, hres, clock, child>>
    /\ UNCHANGED nonScriptVars

Unborn == {p \in Pids : procs[p].st = "unborn"}

\* "$SSHD" -f sshd_config -E logs/sshd.log </dev/null || true; j=0
\* sshd reads the Port of sshd_config as it is now and daemonizes (the daemon
\* binds and writes its pid file later), or exits at once (|| true).
Launch(h) ==
    /\ At(h, "Launch")
    /\ \/ /\ Unborn # {}
          /\ LET p == CHOOSE q \in Unborn : \A r \in Unborn : q <= r
             IN procs' = [procs EXCEPT ![p] = [st |-> "starting", port |-> fs.sshd_config]]
       \/ UNCHANGED procs
    /\ launches' = [launches EXCEPT ![h] = @ + 1]
    /\ j' = [j EXCEPT ![h] = 0]
    /\ Goto(h, "Poll")
    /\ UNCHANGED <<fs, i, PORT, fd3, hst, hres, clock, child>>
    /\ UNCHANGED nonScriptVars

\* while [ $j -lt 10 ]; if [ -f sshd.pid ] && kill -0 ...; then
PollHit(h) ==
    /\ At(h, "Poll")
    /\ j[h] < MaxPolls
    /\ PidFileLive
    /\ Goto(h, "PersistPort")
    /\ UNCHANGED <<fs, procs, i, j, PORT, fd3, launches, hst, hres, clock, child>>
    /\ UNCHANGED nonScriptVars

\* ... else j=$((j+1)); sleep 1.  A second passes; it cannot pass the
\* helper's deadline while the helper's timer is still armed.
PollMiss(h) ==
    /\ At(h, "Poll")
    /\ j[h] < MaxPolls
    /\ ~PidFileLive
    /\ hst[h] = "waiting" => clock[h] < StartTimeoutSecs
    /\ j' = [j EXCEPT ![h] = @ + 1]
    /\ clock' = [clock EXCEPT ![h] = IF hst[h] = "waiting" THEN @ + 1 ELSE @]
    /\ UNCHANGED <<fs, procs, spc, i, PORT, fd3, launches, hst, hres, child>>
    /\ UNCHANGED nonScriptVars

\* The poll loop ends without a live pid: "retrying sshd start".
PollExhausted(h) ==
    /\ At(h, "Poll")
    /\ ~(j[h] < MaxPolls)
    /\ Goto(h, "Allocate")
    /\ UNCHANGED <<fs, procs, i, j, PORT, fd3, launches, hst, hres, clock, child>>
    /\ UNCHANGED nonScriptVars

\* echo "$PORT" > sshd.port
PersistPort(h) ==
    /\ At(h, "PersistPort")
    /\ fs' = [fs EXCEPT !.sshd_port = PORT[h]]
    /\ Goto(h, "Chmod")
    /\ UNCHANGED <<procs, i, j, PORT, fd3, launches, hst, hres, clock, child>>
    /\ UNCHANGED nonScriptVars

\* chmod 600 sshd.pid sshd.port: under set -e the script exits non-zero when
\* sshd.pid is no longer there.
Chmod(h) ==
    /\ At(h, "Chmod")
    /\ Goto(h, IF fs.sshd_pid = NoPid THEN "Aborted" ELSE "Emit")
    /\ UNCHANGED <<fs, procs, i, j, PORT, fd3, launches, hst, hres, clock, child>>
    /\ UNCHANGED nonScriptVars

\* echo "$PORT" >&3; exit 0
Emit(h) ==
    /\ At(h, "Emit")
    /\ fd3' = [fd3 EXCEPT ![h] = PORT[h]]
    /\ Goto(h, "Ready")
    /\ UNCHANGED <<fs, procs, i, j, PORT, launches, hst, hres, clock, child>>
    /\ UNCHANGED nonScriptVars

(***************************************************************************)
(* The sshd daemons.                                                       *)
(***************************************************************************)
PortTaken(p) == \E q \in Pids : q # p /\ procs[q].st = "listening" /\ procs[q].port = procs[p].port

\* A daemon binds 127.0.0.1:<port> and writes its pid into PidFile; when the
\* port is taken it exits instead.
ServerListen(p) ==
    /\ procs[p].st = "starting"
    /\ IF PortTaken(p)
       THEN /\ procs' = [procs EXCEPT ![p].st = "dead"]
            /\ UNCHANGED fs
       ELSE /\ procs' = [procs EXCEPT ![p].st = "listening"]
            /\ fs' = [fs EXCEPT !.sshd_pid = p]
    /\ UNCHANGED <<spc, i, j, PORT, fd3, launches, hst, hres, clock, child>>
    /\ UNCHANGED nonScriptVars

\* A listening server is killed or crashes; its pid file stays behind.
ServerDie(p) ==
    /\ procs[p].st = "listening"
    /\ procs' = [procs EXCEPT ![p].st = "dead"]
    /\ UNCHANGED <<fs, spc, i, j, PORT, fd3, launches, hst, hres, clock, child>>
    /\ UNCHANGED nonScriptVars

ScriptStep(h) ==
    \/ AuthKeysGrep(h) \/ AuthKeysAppend(h) \/ HostKeyCheck(h)
    \/ Probe(h) \/ ReuseEmit(h)
    \/ Allocate(h) \/ GiveUp(h)
    \/ WriteConfig(h) \/ RemovePid(h) \/ Launch(h)
    \/ PollHit(h) \/ PollMiss(h) \/ PollExhausted(h)
    \/ PersistPort(h) \/ Chmod(h) \/ Emit(h)

HelperStep(h) == EnsureStart(h) \/ ExecReturn(h) \/ EnsureTimeout(h)

ServerStep == \E p \in Pids : ServerListen(p) \/ ServerDie(p)

\* One helper run against the base directory.
NextScript == HelperStep(1) \/ ScriptStep(1) \/ ServerStep


\* Two helper runs against the same base directory, in every interleaving;
\* the first RaceLaunchCap launches of each run are explored.
RaceScriptStep(h) ==
    \/ AuthKeysGrep(h) \/ AuthKeysAppend(h) \/ HostKeyCheck(h)
    \/ Probe(h) \/ ReuseEmit(h)
    \/ (i[h] < RaceLaunchCap /\ Allocate(h))
    \/ WriteConfig(h) \/ RemovePid(h) \/ Launch(h)
    \/ PollHit(h) \/ PollMiss(h) \/ PollExhausted(h)
    \/ PersistPort(h) \/ Chmod(h) \/ Emit(h)

\* No run polls for 40 s within these launches, and no server dies while
\* the two runs are under way: EnsureTimeout and ServerDie are left out.
NextRace ==
    \/ \E h \in Helpers : EnsureStart(h) \/ ExecReturn(h) \/ RaceScriptStep(h)
    \/ \E p \in Pids : ServerListen(p)



\* A helper process starts ensure_sshd_running while no other run is under
\* way: the exec is spawned and the script starts from its first line.
BeginRun(h) ==
    /\ \A g \in Helpers : spc[g] \in Terminal \cup {"off"} /\ hst[g] # "waiting"
    /\ hst' = [hst EXCEPT ![h] = "waiting"]
    /\ child' = [child EXCEPT ![h] = "running"]
    /\ clock' = [clock EXCEPT ![h] = 0]
    /\ spc' = [spc EXCEPT ![h] = "AuthorizedKeys"]
    /\ i' = [i EXCEPT ![h] = 0]
    /\ j' = [j EXCEPT ![h] = 0]
    /\ PORT' = [PORT EXCEPT ![h] = NoPort]
    /\ fd3' = [fd3 EXCEPT ![h] = NoPort]
    /\ launches' = [launches EXCEPT ![h] = 0]
    /\ hres' = [hres EXCEPT ![h] = [kind |-> "none", port |-> NoPort]]
    /\ UNCHANGED <<fs, procs>>
    /\ UNCHANGED nonScriptVars

\* Helper runs against the same base directory one after another, by either
\* helper any number of times; the first RaceLaunchCap launches of each run
\* are explored.
NextSeq ==
    \/ \E h \in Helpers : BeginRun(h) \/ ExecReturn(h) \/ RaceScriptStep(h)
    \/ \E p \in Pids : ServerListen(p) \/ ServerDie(p)

(***************************************************************************)
(* Part II: proxy::run.                                                    *)
(***************************************************************************)
\* The steps of run, in the order of its source.
StepOrder ==
    <<"parse", "resolve", "keys", "lock", "identity", "arch", "bundle",
      "hostkeys", "sshd", "port-forward", "connect", "pump", "stop">>

\* Ports sshd may be reported on, and ports kubectl port-forward may announce.
RemotePorts == {20000, 31415}
LocalPorts == {40001, 40002}

\* No counters printed.
NoReport == [bytes_to_remote |-> -1, bytes_from_remote |-> -1]

InitProxy ==
    /\ rpc = "parse"
    /\ log = <<>>
    /\ remote_port = NoPort
    /\ fwd_remote_port = NoPort
    /\ local_port = NoPort
    /\ conn_port = NoPort
    /\ sshd_exec = "none"
    /\ pf_child = "none"
    /\ stdout_task = "none"
    /\ stderr_task = "none"
    /\ to_remote = "none"
    /\ from_remote = "none"
    /\ pump_result = "none"
    /\ stop_result = "none"
    /\ run_result = "none"
    /\ lock = "none"
    /\ stops = 0
    /\ stop_trace = <<>>
    /\ stdin_read = 0
    /\ sock_written = 0
    /\ sock_read = 0
    /\ stdout_written = 0
    /\ write_half = "none"
    /\ stdout_flushed = FALSE
    /\ reported = NoReport
    /\ pump_order = <<>>

\* The container's effective uid and login name (NoName: the uid has no
\* passwd entry), the requested login user, and whether `kubectl exec id`
\* can run at all.
NoName == ""
Identities ==
    { [uid |-> 0, user |-> "root"], [uid |-> 1000, user |-> "app"],
      [uid |-> 1000, user |-> NoName] }
LoginUsers == {"root", "app"}

InitIdentity ==
    /\ \E c \in Identities : container_uid = c.uid /\ container_user = c.user
    /\ login_user \in LoginUsers
    /\ id_exec \in BOOLEAN

IdleIdentity ==
    /\ container_uid = 0
    /\ container_user = "root"
    /\ login_user = "root"
    /\ id_exec = TRUE

Entry(step, ok, val) == [step |-> step, ok |-> ok, val |-> val]
Logged(step) == \E n \in 1..Len(log) : log[n].step = step

\* `?` on an Err: run returns it.
Propagate(err) == rpc' = "done" /\ run_result' = err

\* A step that either succeeds and lets run go on, or fails and ends run.
Fallible(here, next, err) ==
    /\ \E ok \in BOOLEAN :
         /\ log' = Append(log, Entry(here, ok, NoPort))
         /\ IF ok THEN rpc' = next /\ UNCHANGED run_result ELSE Propagate(err)
    /\ UNCHANGED <<remote_port, fwd_remote_port, local_port, conn_port, sshd_exec,
                   pf_child, stdout_task, stderr_task, to_remote, from_remote,
                   pump_result, stop_result>>
    /\ UNCHANGED <<identVars, lock>>
    /\ UNCHANGED <<stopVars, pumpVars>>
    /\ UNCHANGED nonProxyVars

\* hostspec::parse(&args.host).context("failed to parse hostspec")?
ParseHost == rpc = "parse" /\ Fallible("parse", "resolve", "failed to parse hostspec")

\* Option<String>
NoContainer == ""
Unnamed == <<>>
Named(c) == <<c>>
ContainerNames == {"main", "side"}
\* How many containers a pod has at most.
MaxContainers == 2
\* pod_info.containers: the names of the containers of a pod are distinct.
ContainerLists ==
    {cs \in UNION {[1..n -> ContainerNames] : n \in 0..MaxContainers} :
        \A m, n \in DOMAIN cs : m # n => cs[m] # cs[n]}
Resolved(c) == [ok |-> TRUE, name |-> c]
Unresolved(err) == [ok |-> FALSE, err |-> err]

\* A resolution that takes the pod's first container when none is named.
resolve_container_first(want, containers) ==
    IF want # Unnamed
    THEN IF \E n \in 1..Len(containers) : containers[n] = want[1]
         THEN Resolved(want[1])
         ELSE Unresolved("container not found in pod")
    ELSE IF Len(containers) >= 1
         THEN Resolved(containers[1])
         ELSE Unresolved("This Pod has multiple containers")

\* resolve_remote_target: let container = match host.container.as_ref() { .. }
resolve_container(want, containers) ==
    IF want # Unnamed
    THEN IF \E n \in 1..Len(containers) : containers[n] = want[1]
         THEN Resolved(want[1])
         ELSE Unresolved("container not found in pod")
    ELSE IF Len(containers) = 1
         THEN Resolved(containers[1])
         ELSE Unresolved("This Pod has multiple containers")

IdleResolve ==
    /\ want_container = Unnamed
    /\ pod_containers = <<"main">>
    /\ target_container = NoContainer

InitResolve ==
    /\ want_container \in {Unnamed} \cup {Named(c) : c \in ContainerNames}
    /\ pod_containers \in ContainerLists
    /\ target_container = NoContainer

\* resolve_remote_target(&host).await?: the kubectl calls that find the pod
\* and fetch its PodInfo succeed or fail; then the container is resolved.
ResolveTarget ==
    /\ rpc = "resolve"
    /\ \E fetched \in BOOLEAN :
         LET r == IF fetched THEN resolve_container(want_container, pod_containers)
                  ELSE Unresolved("failed to resolve target")
         IN  /\ log' = Append(log, Entry("resolve", r.ok, NoPort))
             /\ IF r.ok
                THEN rpc' = "keys" /\ target_container' = r.name /\ UNCHANGED run_result
                ELSE Propagate(r.err) /\ UNCHANGED target_container
    /\ UNCHANGED <<want_container, pod_containers>>
    /\ UNCHANGED <<remote_port, fwd_remote_port, local_port, conn_port, sshd_exec,
                   pf_child, stdout_task, stderr_task, to_remote, from_remote,
                   pump_result, stop_result>>
    /\ UNCHANGED <<identVars, lock>>
    /\ UNCHANGED <<stopVars, pumpVars>>
    /\ UNCHANGED <<scriptVars, keyVars, hostKeyVars, bundleVars, hostspecVars, podVars, selectorVars, jobVars,
                   installVars, portVars, nsVars, chooseVars, execVars>>

\* keys::ensure_key("id_ed25519") and keys::ensure_key("ssh_host_ed25519_key")
EnsureKeys == rpc = "keys" /\ Fallible("keys", "lock", "failed to ensure keys")

\* What the exec of `umask 077; mkdir "<base>/lock"` can come to: the
\* directory is made, it is there already, <base> is missing, or the exec
\* itself fails.
LockOutcomes == {"created", "exists", "no base", "exec failed"}

\* A lock attempt whose exec failure is returned with `?`.
TryAcquireLockOrFail ==
    /\ rpc = "lock"
    /\ \E outcome \in LockOutcomes :
         /\ lock' = outcome
         /\ log' = Append(log, Entry("lock", outcome = "created", NoPort))
         /\ IF outcome = "exec failed"
            THEN Propagate("failed to spawn kubectl exec")
            ELSE rpc' = "identity" /\ UNCHANGED run_result
    /\ UNCHANGED <<remote_port, fwd_remote_port, local_port, conn_port, sshd_exec,
                   pf_child, stdout_task, stderr_task, to_remote, from_remote,
                   pump_result, stop_result>>
    /\ UNCHANGED identVars
    /\ UNCHANGED <<stopVars, pumpVars>>
    /\ UNCHANGED nonProxyVars

\* remote::try_acquire_lock: its outcome is dropped (let _ = ...).
TryAcquireLock ==
    /\ rpc = "lock"
    /\ \E outcome \in LockOutcomes :
         /\ lock' = outcome
         /\ log' = Append(log, Entry("lock", outcome = "created", NoPort))
    /\ rpc' = "identity"
    /\ UNCHANGED <<remote_port, fwd_remote_port, local_port, conn_port, sshd_exec,
                   pf_child, stdout_task, stderr_task, to_remote, from_remote,
                   pump_result, stop_result, run_result>>
    /\ UNCHANGED identVars
    /\ UNCHANGED <<stopVars, pumpVars>>
    /\ UNCHANGED nonProxyVars

\* assert_login_user_allowed without the uid test.
NameOnlyIdentity ==
    IF ~id_exec THEN "failed to read remote uid"
    ELSE IF container_user = NoName THEN "failed to read remote user"
    ELSE IF container_user # login_user THEN "This Pod runs as non-root"
    ELSE "Ok"

\* assert_login_user_allowed: `id -u`, then unless it printed 0 `id -un`,
\* which fails for a uid without a name, compared with login_user.
IdentityResult ==
    IF ~id_exec THEN "failed to read remote uid"
    ELSE IF container_uid = 0 THEN "Ok"
    ELSE IF container_user = NoName THEN "failed to read remote user"
    ELSE IF container_user # login_user THEN "This Pod runs as non-root"
    ELSE "Ok"

\* remote::assert_login_user_allowed(&target, &login_user).await?
AssertLoginUser ==
    /\ rpc = "identity"
    /\ log' = Append(log, Entry("identity", IdentityResult = "Ok", NoPort))
    /\ IF IdentityResult = "Ok"
       THEN rpc' = "arch" /\ UNCHANGED run_result
       ELSE Propagate(IdentityResult)
    /\ UNCHANGED <<remote_port, fwd_remote_port, local_port, conn_port, sshd_exec,
                   pf_child, stdout_task, stderr_task, to_remote, from_remote,
                   pump_result, stop_result>>
    /\ UNCHANGED <<identVars, lock>>
    /\ UNCHANGED <<stopVars, pumpVars>>
    /\ UNCHANGED nonProxyVars

\* bundle::detect_remote_arch(&target)
DetectArch == rpc = "arch" /\ Fallible("arch", "bundle", "failed to detect remote arch")

\* bundle::ensure_bundle(&target, &base, &arch).await?
EnsureBundleStep == rpc = "bundle" /\ Fallible("bundle", "hostkeys", "failed to install bundle")

\* remote::install_host_keys(&target, &base, &host_keys).await?
InstallHostKeys == rpc = "hostkeys" /\ Fallible("hostkeys", "sshd", "failed to install host keys")

\* remote::ensure_sshd_running(...).await?  It returns the port the script
\* printed, or the exec's failure (the subprocess was waited on), or, after
\* 40 s, the timeout: the exec future is dropped while its Child, spawned
\* without kill_on_drop, is still running.
EnsureSshd ==
    /\ rpc = "sshd"
    /\ \/ \E p \in RemotePorts :
            /\ remote_port' = p
            /\ sshd_exec' = "reaped"
            /\ log' = Append(log, Entry("sshd", TRUE, p))
            /\ rpc' = "port-forward"
            /\ UNCHANGED run_result
       \/ /\ sshd_exec' = "reaped"
          /\ log' = Append(log, Entry("sshd", FALSE, NoPort))
          /\ Propagate("failed to start sshd")
          /\ UNCHANGED remote_port
       \/ /\ sshd_exec' = "running"
          /\ log' = Append(log, Entry("sshd", FALSE, NoPort))
          /\ Propagate("starting sshd timed out after 40s")
          /\ UNCHANGED remote_port
    /\ UNCHANGED <<fwd_remote_port, local_port, conn_port, pf_child, stdout_task,
                   stderr_task, to_remote, from_remote, pump_result, stop_result>>
    /\ UNCHANGED <<identVars, lock>>
    /\ UNCHANGED <<stopVars, pumpVars>>
    /\ UNCHANGED nonProxyVars

(***************************************************************************)
(* PortForward::start                                                      *)
(***************************************************************************)
\* kubectl port-forward ... :<remote_port> is spawned, or the spawn fails.
PfSpawn ==
    /\ rpc = "port-forward"
    /\ fwd_remote_port' = remote_port
    /\ \/ /\ pf_child' = "running"
          /\ rpc' = "pf-wait"
          /\ UNCHANGED <<log, run_result>>
       \/ /\ log' = Append(log, Entry("port-forward", FALSE, NoPort))
          /\ Propagate("failed to spawn kubectl port-forward process")
          /\ UNCHANGED pf_child
    /\ UNCHANGED <<remote_port, local_port, conn_port, sshd_exec, stdout_task,
                   stderr_task, to_remote, from_remote, pump_result, stop_result>>
    /\ UNCHANGED <<identVars, lock>>
    /\ UNCHANGED <<stopVars, pumpVars>>
    /\ UNCHANGED nonProxyVars

\* A "Forwarding from 127.0.0.1:<port>" line arrives within the 10 s: the two
\* drain tasks are spawned and (PortForward, port) returned.
PfAnnounce ==
    /\ rpc = "pf-wait"
    /\ pf_child = "running"
    /\ \E p \in LocalPorts :
         /\ local_port' = p
         /\ log' = Append(log, Entry("port-forward", TRUE, p))
    /\ stdout_task' = "running"
    /\ stderr_task' = "running"
    /\ rpc' = "connect"
    /\ UNCHANGED <<remote_port, fwd_remote_port, conn_port, sshd_exec, pf_child,
                   to_remote, from_remote, pump_result, stop_result, run_result>>
    /\ UNCHANGED <<identVars, lock>>
    /\ UNCHANGED <<stopVars, pumpVars>>
    /\ UNCHANGED nonProxyVars

\* status = child.wait(): "kubectl port-forward exited early".
PfExitedEarly ==
    /\ rpc = "pf-wait"
    /\ pf_child' = "reaped"
    /\ log' = Append(log, Entry("port-forward", FALSE, NoPort))
    /\ Propagate("kubectl port-forward exited early")
    /\ UNCHANGED <<remote_port, fwd_remote_port, local_port, conn_port, sshd_exec,
                   stdout_task, stderr_task, to_remote, from_remote, pump_result,
                   stop_result>>
    /\ UNCHANGED <<identVars, lock>>
    /\ UNCHANGED <<stopVars, pumpVars>>
    /\ UNCHANGED nonProxyVars

\* stdout ends without a "Forwarding from" line: "kubectl port-forward exited
\* before reporting a port".  The subprocess, exited or not, is not waited on.
PfStdoutEOF ==
    /\ rpc = "pf-wait"
    /\ \E st \in {"running", "exited"} : pf_child' = st
    /\ log' = Append(log, Entry("port-forward", FALSE, NoPort))
    /\ Propagate("kubectl port-forward exited before reporting a port")
    /\ UNCHANGED <<remote_port, fwd_remote_port, local_port, conn_port, sshd_exec,
                   stdout_task, stderr_task, to_remote, from_remote, pump_result,
                   stop_result>>
    /\ UNCHANGED <<identVars, lock>>
    /\ UNCHANGED <<stopVars, pumpVars>>
    /\ UNCHANGED nonProxyVars

\* The 10 s elapse: "timed out waiting for port-forward to assign a local
\* port".  start returns the error; child is dropped, neither killed nor
\* waited on.
PfTimeout ==
    /\ rpc = "pf-wait"
    /\ log' = Append(log, Entry("port-forward", FALSE, NoPort))
    /\ Propagate("timed out waiting for port-forward to assign a local port")
    /\ UNCHANGED <<remote_port, fwd_remote_port, local_port, conn_port, sshd_exec,
                   pf_child, stdout_task, stderr_task, to_remote, from_remote,
                   pump_result, stop_result>>
    /\ UNCHANGED <<identVars, lock>>
    /\ UNCHANGED <<stopVars, pumpVars>>
    /\ UNCHANGED nonProxyVars

\* A TCP connect to 127.0.0.1:port; on success the pump's two copies start,
\* on failure `?` returns the error from run (the handle is dropped).
ConnectTo(port) ==
    /\ conn_port' = port
    /\ \E ok \in BOOLEAN :
         /\ log' = Append(log, Entry("connect", ok, NoPort))
         /\ IF ok
            THEN /\ rpc' = "pump"
                 /\ to_remote' = "copying"
                 /\ from_remote' = "copying"
                 /\ write_half' = "open"
                 /\ UNCHANGED run_result
            ELSE /\ Propagate("failed to connect to forwarded sshd port")
                 /\ UNCHANGED <<to_remote, from_remote, write_half>>
    /\ UNCHANGED <<remote_port, fwd_remote_port, local_port, sshd_exec, pf_child,
                   stdout_task, stderr_task, pump_result, stop_result>>
    /\ UNCHANGED <<identVars, lock>>
    /\ UNCHANGED <<stdin_read, sock_written, sock_read, stdout_written, stdout_flushed,
                   reported, pump_order>>
    /\ UNCHANGED stopVars
    /\ UNCHANGED nonProxyVars

\* A connect to the container's port number on the local side.
ConnectToRemotePort == rpc = "connect" /\ ConnectTo(remote_port)

\* TcpStream::connect(("127.0.0.1", local_port)).await.context(...)?
Connect == rpc = "connect" /\ ConnectTo(local_port)

(***************************************************************************)
(* proxy_io::pump                                                          *)
(***************************************************************************)
\* How many bytes either peer sends at most.
MaxBytes == 1
\* How many bytes a copy holds between a read and the write that follows.
CopyBuf == 1

Ended(dir, res) == [dir |-> dir, res |-> res]

\* tokio::io::copy(&mut stdin, &mut writer): a read from stdin.
ToRemoteRead ==
    /\ rpc = "pump"
    /\ to_remote = "copying"
    /\ stdin_read < MaxBytes
    /\ stdin_read - sock_written < CopyBuf
    /\ stdin_read' = stdin_read + 1
    /\ UNCHANGED <<sock_written, sock_read, stdout_written, write_half, stdout_flushed,
                   reported, pump_order>>
    /\ UNCHANGED <<rpc, log, remote_port, fwd_remote_port, local_port, conn_port,
                   sshd_exec, pf_child, stdout_task, stderr_task, to_remote, from_remote,
                   pump_result, stop_result, run_result>>
    /\ UNCHANGED <<identVars, lock, stopVars>>
    /\ UNCHANGED nonProxyVars

\* tokio::io::copy(&mut stdin, &mut writer): a write to the socket.
ToRemoteWrite ==
    /\ rpc = "pump"
    /\ to_remote = "copying"
    /\ sock_written < stdin_read
    /\ sock_written' = sock_written + 1
    /\ UNCHANGED <<stdin_read, sock_read, stdout_written, write_half, stdout_flushed,
                   reported, pump_order>>
    /\ UNCHANGED <<rpc, log, remote_port, fwd_remote_port, local_port, conn_port,
                   sshd_exec, pf_child, stdout_task, stderr_task, to_remote, from_remote,
                   pump_result, stop_result, run_result>>
    /\ UNCHANGED <<identVars, lock, stopVars>>
    /\ UNCHANGED nonProxyVars

\* A socket EOF that ends the stdin -> socket copy as well.
SocketEofEndsBoth(ok) ==
    /\ from_remote' = IF ok THEN "ok" ELSE "err"
    /\ to_remote' = IF to_remote = "copying" THEN "ok" ELSE to_remote
    /\ pump_order' = IF to_remote = "copying"
                     THEN pump_order \o <<Ended("from_remote", IF ok THEN "ok" ELSE "err"),
                                          Ended("to_remote", "ok")>>
                     ELSE Append(pump_order, Ended("from_remote", IF ok THEN "ok" ELSE "err"))

\* The socket -> stdout task ends; the stdin -> socket task is another task
\* and is left as it is.
SocketEof(ok) ==
    /\ from_remote' = IF ok THEN "ok" ELSE "err"
    /\ to_remote' = to_remote
    /\ pump_order' = Append(pump_order, Ended("from_remote", IF ok THEN "ok" ELSE "err"))

\* stdin reached EOF: copy returns what it wrote, then writer.shutdown().await?
ToRemoteEOF ==
    /\ rpc = "pump"
    /\ to_remote = "copying"
    /\ sock_written = stdin_read
    /\ \E ok \in BOOLEAN :
         /\ write_half' = IF ok THEN "shutdown" ELSE write_half
         /\ to_remote' = IF ok THEN "ok" ELSE "err"
         /\ pump_order' = Append(pump_order, Ended("to_remote", IF ok THEN "ok" ELSE "err"))
    /\ UNCHANGED <<stdin_read, sock_written, sock_read, stdout_written, stdout_flushed,
                   reported>>
    /\ UNCHANGED <<rpc, log, remote_port, fwd_remote_port, local_port, conn_port,
                   sshd_exec, pf_child, stdout_task, stderr_task, from_remote,
                   pump_result, stop_result, run_result>>
    /\ UNCHANGED <<identVars, lock, stopVars>>
    /\ UNCHANGED nonProxyVars

\* A read from stdin or a write to the socket fails: copy(...).await?
ToRemoteFails ==
    /\ rpc = "pump"
    /\ to_remote = "copying"
    /\ to_remote' = "err"
    /\ pump_order' = Append(pump_order, Ended("to_remote", "err"))
    /\ UNCHANGED <<stdin_read, sock_written, sock_read, stdout_written, write_half,
                   stdout_flushed, reported>>
    /\ UNCHANGED <<rpc, log, remote_port, fwd_remote_port, local_port, conn_port,
                   sshd_exec, pf_child, stdout_task, stderr_task, from_remote,
                   pump_result, stop_result, run_result>>
    /\ UNCHANGED <<identVars, lock, stopVars>>
    /\ UNCHANGED nonProxyVars

\* tokio::io::copy(&mut reader, &mut stdout): a read from the socket.
FromRemoteRead ==
    /\ rpc = "pump"
    /\ from_remote = "copying"
    /\ sock_read < MaxBytes
    /\ sock_read - stdout_written < CopyBuf
    /\ sock_read' = sock_read + 1
    /\ UNCHANGED <<stdin_read, sock_written, stdout_written, write_half, stdout_flushed,
                   reported, pump_order>>
    /\ UNCHANGED <<rpc, log, remote_port, fwd_remote_port, local_port, conn_port,
                   sshd_exec, pf_child, stdout_task, stderr_task, to_remote, from_remote,
                   pump_result, stop_result, run_result>>
    /\ UNCHANGED <<identVars, lock, stopVars>>
    /\ UNCHANGED nonProxyVars

\* tokio::io::copy(&mut reader, &mut stdout): a write to stdout.
FromRemoteWrite ==
    /\ rpc = "pump"
    /\ from_remote = "copying"
    /\ stdout_written < sock_read
    /\ stdout_written' = stdout_written + 1
    /\ stdout_flushed' = FALSE
    /\ UNCHANGED <<stdin_read, sock_written, sock_read, write_half, reported, pump_order>>
    /\ UNCHANGED <<rpc, log, remote_port, fwd_remote_port, local_port, conn_port,
                   sshd_exec, pf_child, stdout_task, stderr_task, to_remote, from_remote,
                   pump_result, stop_result, run_result>>
    /\ UNCHANGED <<identVars, lock, stopVars>>
    /\ UNCHANGED nonProxyVars

\* The socket reached EOF: copy returns what it wrote, then stdout.flush().await?
FromRemoteEOF ==
    /\ rpc = "pump"
    /\ from_remote = "copying"
    /\ stdout_written = sock_read
    /\ \E ok \in BOOLEAN :
         /\ stdout_flushed' = IF ok THEN TRUE ELSE stdout_flushed
         /\ SocketEof(ok)
    /\ UNCHANGED <<stdin_read, sock_written, sock_read, stdout_written, write_half,
                   reported>>
    /\ UNCHANGED <<rpc, log, remote_port, fwd_remote_port, local_port, conn_port,
                   sshd_exec, pf_child, stdout_task, stderr_task,
                   pump_result, stop_result, run_result>>
    /\ UNCHANGED <<identVars, lock, stopVars>>
    /\ UNCHANGED nonProxyVars

\* A read from the socket or a write to stdout fails: copy(...).await?
FromRemoteFails ==
    /\ rpc = "pump"
    /\ from_remote = "copying"
    /\ from_remote' = "err"
    /\ pump_order' = Append(pump_order, Ended("from_remote", "err"))
    /\ UNCHANGED <<stdin_read, sock_written, sock_read, stdout_written, write_half,
                   stdout_flushed, reported>>
    /\ UNCHANGED <<rpc, log, remote_port, fwd_remote_port, local_port, conn_port,
                   sshd_exec, pf_child, stdout_task, stderr_task, to_remote,
                   pump_result, stop_result, run_result>>
    /\ UNCHANGED <<identVars, lock, stopVars>>
    /\ UNCHANGED nonProxyVars

\* let (a, b) = tokio::join!(to_remote, from_remote); a??; b??; Ok(())
PumpOutcome(a, b) ==
    IF a = "err" THEN "to_remote failed"
    ELSE IF b = "err" THEN "from_remote failed"
    ELSE "Ok"

\* Counters printed under each other's name.
CountersSwapped(to_bytes, from_bytes) ==
    [bytes_to_remote |-> from_bytes, bytes_from_remote |-> to_bytes]

\* eprintln!("[sshpod][proxy_io] bytes_to_remote={} bytes_from_remote={}", ...)
Counters(to_bytes, from_bytes) ==
    [bytes_to_remote |-> to_bytes, bytes_from_remote |-> from_bytes]

\* a?? and b?? return before the eprintln! when a direction failed.
Report(a, b) ==
    IF PumpOutcome(a, b) = "Ok" THEN Counters(sock_written, stdout_written) ELSE NoReport

\* A pump that returns when the first of its two copies has ended.
PumpJoinOnFirst ==
    /\ rpc = "pump"
    /\ to_remote # "copying" \/ from_remote # "copying"
    /\ pump_result' = PumpOutcome(to_remote, from_remote)
    /\ reported' = Report(to_remote, from_remote)
    /\ log' = Append(log, Entry("pump", PumpOutcome(to_remote, from_remote) = "Ok", NoPort))
    /\ rpc' = "stop"
    /\ UNCHANGED <<remote_port, fwd_remote_port, local_port, conn_port, sshd_exec,
                   pf_child, stdout_task, stderr_task, to_remote, from_remote,
                   stop_result, run_result>>
    /\ UNCHANGED <<stdin_read, sock_written, sock_read, stdout_written, write_half,
                   stdout_flushed, pump_order>>
    /\ UNCHANGED <<identVars, lock, stopVars>>
    /\ UNCHANGED nonProxyVars

\* join! completes when both tasks have; pump returns.
PumpJoin ==
    /\ rpc = "pump"
    /\ to_remote # "copying"
    /\ from_remote # "copying"
    /\ pump_result' = PumpOutcome(to_remote, from_remote)
    /\ reported' = Report(to_remote, from_remote)
    /\ log' = Append(log, Entry("pump", PumpOutcome(to_remote, from_remote) = "Ok", NoPort))
    /\ rpc' = "stop"
    /\ UNCHANGED <<remote_port, fwd_remote_port, local_port, conn_port, sshd_exec,
                   pf_child, stdout_task, stderr_task, to_remote, from_remote,
                   stop_result, run_result>>
    /\ UNCHANGED <<stdin_read, sock_written, sock_read, stdout_written, write_half,
                   stdout_flushed, pump_order>>
    /\ UNCHANGED <<identVars, lock, stopVars>>
    /\ UNCHANGED nonProxyVars

(***************************************************************************)
(* PortForward::stop                                                       *)
(***************************************************************************)
\* How many times stop is called on one PortForward.
MaxStops == 2

Did(op, err) == [call |-> stops + 1, op |-> op, err |-> err]

\* A stop that signals the subprocess whether or not it was waited for.
KillIssuedAlways == TRUE

\* self.child.id().is_some(): the subprocess has not been waited for.
KillIssued == pf_child \in {"running", "exited"}

\* if self.child.id().is_some() { let _ = self.child.start_kill(); }
\* Signalling a subprocess that has exited on its own may fail.
StopKill ==
    /\ rpc = "stop"
    /\ IF KillIssued
       THEN \E err \in (IF pf_child = "running" THEN {FALSE} ELSE BOOLEAN) :
              stop_trace' = Append(stop_trace, Did("kill", err))
       ELSE UNCHANGED stop_trace
    /\ pf_child' = IF pf_child = "running" THEN "killed" ELSE pf_child
    /\ rpc' = "stop-wait"
    /\ UNCHANGED stops
    /\ UNCHANGED <<log, remote_port, fwd_remote_port, local_port, conn_port, sshd_exec,
                   stdout_task, stderr_task, to_remote, from_remote, pump_result,
                   stop_result, run_result>>
    /\ UNCHANGED <<identVars, lock, pumpVars>>
    /\ UNCHANGED nonProxyVars

\* let _ = self.child.wait().await;
\* A subprocess that was waited for before gives its exit status again.
StopWait ==
    /\ rpc = "stop-wait"
    /\ pf_child \in {"killed", "exited", "reaped"}
    /\ IF pf_child = "reaped"
       THEN UNCHANGED stop_trace
       ELSE \E err \in BOOLEAN : stop_trace' = Append(stop_trace, Did("wait", err))
    /\ pf_child' = "reaped"
    /\ rpc' = "stop-join-stdout"
    /\ UNCHANGED stops
    /\ UNCHANGED <<log, remote_port, fwd_remote_port, local_port, conn_port, sshd_exec,
                   stdout_task, stderr_task, to_remote, from_remote, pump_result,
                   stop_result, run_result>>
    /\ UNCHANGED <<identVars, lock, pumpVars>>
    /\ UNCHANGED nonProxyVars

\* if let Some(handle) = self.stdout_task.take() { let _ = handle.await; }
StopJoinStdout ==
    /\ rpc = "stop-join-stdout"
    /\ IF stdout_task = "joined"
       THEN UNCHANGED <<stdout_task, stop_trace>>
       ELSE /\ stdout_task \in {"finished", "failed"}
            /\ stdout_task' = "joined"
            /\ stop_trace' = Append(stop_trace, Did("join stdout", stdout_task = "failed"))
    /\ rpc' = "stop-join-stderr"
    /\ UNCHANGED stops
    /\ UNCHANGED <<log, remote_port, fwd_remote_port, local_port, conn_port, sshd_exec,
                   pf_child, stderr_task, to_remote, from_remote, pump_result,
                   stop_result, run_result>>
    /\ UNCHANGED <<identVars, lock, pumpVars>>
    /\ UNCHANGED nonProxyVars

\* if let Some(handle) = self.stderr_task.take() { let _ = handle.await; }  Ok(())
StopJoinStderr ==
    /\ rpc = "stop-join-stderr"
    /\ IF stderr_task = "joined"
       THEN UNCHANGED <<stderr_task, stop_trace>>
       ELSE /\ stderr_task \in {"finished", "failed"}
            /\ stderr_task' = "joined"
            /\ stop_trace' = Append(stop_trace, Did("join stderr", stderr_task = "failed"))
    /\ stop_result' = "Ok"
    /\ log' = IF stops = 0 THEN Append(log, Entry("stop", TRUE, NoPort)) ELSE log
    /\ rpc' = "return"
    /\ stops' = stops + 1
    /\ UNCHANGED <<remote_port, fwd_remote_port, local_port, conn_port, sshd_exec,
                   pf_child, stdout_task, to_remote, from_remote, pump_result,
                   run_result>>
    /\ UNCHANGED <<identVars, lock, pumpVars>>
    /\ UNCHANGED nonProxyVars

\* stop is called once more on the same PortForward before run goes on.
StopAgain ==
    /\ rpc = "return"
    /\ stops < MaxStops
    /\ UNCHANGED stops
    /\ stop_result' = "none"
    /\ rpc' = "stop"
    /\ UNCHANGED stop_trace
    /\ UNCHANGED <<log, remote_port, fwd_remote_port, local_port, conn_port, sshd_exec,
                   pf_child, stdout_task, stderr_task, to_remote, from_remote, pump_result,
                   run_result>>
    /\ UNCHANGED <<identVars, lock, pumpVars>>
    /\ UNCHANGED nonProxyVars

\* pump_result?; stop_result?; Ok(())
\* A result that leaves the pump's out.
OutcomeOfStopOnly(pump, stop) == stop

RunOutcome(pump, stop) == IF pump # "Ok" THEN pump ELSE stop

RunReturn ==
    /\ rpc = "return"
    /\ Propagate(RunOutcome(pump_result, stop_result))
    /\ UNCHANGED <<log, remote_port, fwd_remote_port, local_port, conn_port, sshd_exec,
                   pf_child, stdout_task, stderr_task, to_remote, from_remote,
                   pump_result, stop_result>>
    /\ UNCHANGED <<identVars, lock>>
    /\ UNCHANGED <<stopVars, pumpVars>>
    /\ UNCHANGED nonProxyVars

(***************************************************************************)
(* The kubectl port-forward subprocess and the tasks that read its pipes.  *)
(***************************************************************************)
\* kubectl port-forward exits by itself while the helper is running.
PfChildExits ==
    /\ rpc \in {"connect", "pump", "stop"}
    /\ pf_child = "running"
    /\ pf_child' = "exited"
    /\ UNCHANGED <<rpc, log, remote_port, fwd_remote_port, local_port, conn_port,
                   sshd_exec, stdout_task, stderr_task, to_remote, from_remote,
                   pump_result, stop_result, run_result>>
    /\ UNCHANGED <<identVars, lock>>
    /\ UNCHANGED <<stopVars, pumpVars>>
    /\ UNCHANGED nonProxyVars

\* A drain task reads to the end of its pipe once the subprocess is gone, or
\* ends on a line it cannot read.
StdoutDrained ==
    /\ rpc # "done"
    /\ pf_child \in {"killed", "exited", "reaped"}
    /\ stdout_task = "running"
    /\ \E r \in {"finished", "failed"} : stdout_task' = r
    /\ UNCHANGED <<rpc, log, remote_port, fwd_remote_port, local_port, conn_port,
                   sshd_exec, pf_child, stderr_task, to_remote, from_remote,
                   pump_result, stop_result, run_result>>
    /\ UNCHANGED <<identVars, lock>>
    /\ UNCHANGED <<stopVars, pumpVars>>
    /\ UNCHANGED nonProxyVars

StderrDrained ==
    /\ rpc # "done"
    /\ pf_child \in {"killed", "exited", "reaped"}
    /\ stderr_task = "running"
    /\ \E r \in {"finished", "failed"} : stderr_task' = r
    /\ UNCHANGED <<rpc, log, remote_port, fwd_remote_port, local_port, conn_port,
                   sshd_exec, pf_child, stdout_task, to_remote, from_remote,
                   pump_result, stop_result, run_result>>
    /\ UNCHANGED <<identVars, lock>>
    /\ UNCHANGED <<stopVars, pumpVars>>
    /\ UNCHANGED nonProxyVars

NextProxy ==
    \/ ParseHost \/ ResolveTarget \/ EnsureKeys \/ TryAcquireLock
    \/ AssertLoginUser \/ DetectArch \/ EnsureBundleStep \/ InstallHostKeys
    \/ EnsureSshd
    \/ PfSpawn \/ PfAnnounce \/ PfExitedEarly \/ PfStdoutEOF \/ PfTimeout
    \/ Connect
    \/ ToRemoteRead \/ ToRemoteWrite \/ ToRemoteEOF \/ ToRemoteFails
    \/ FromRemoteRead \/ FromRemoteWrite \/ FromRemoteEOF \/ FromRemoteFails
    \/ PumpJoin
    \/ StopKill \/ StopWait \/ StopJoinStdout \/ StopJoinStderr
    \/ RunReturn
    \/ PfChildExits \/ StdoutDrained \/ StderrDrained

(***************************************************************************)
(* Part III: bundle::ensure_bundle.                                        *)
(***************************************************************************)
\* BUNDLE_VERSION: concat!(env!("CARGO_PKG_VERSION"), "+sshd1"), for a package
\* version of 0.1.0.
BUNDLE_VERSION == "0.1.0+sshd1"
Archs == {"linux/amd64", "linux/arm64"}
NoFile == "absent"
\* The decompressed server binary for an arch.
SshdOf(a) == <<"sshd", BUNDLE_VERSION, a>>

\* An error is its chain of messages, outermost first (what {:#} prints); a
\* message is a sequence of words.
NoErr == <<>>
Err(msg) == <<msg>>
\* .context(msg)
WithContext(msg, err) == <<msg>> \o err
\* {} of an anyhow error: its outermost message.
Display(err) == err[1]
IsInfix(sub, msg) ==
    \E k \in 0..(Len(msg) - Len(sub)) : SubSeq(msg, k + 1, k + Len(sub)) = sub
\* The printed error has the words of `sub` in it.
Contains(err, sub) == \E n \in 1..Len(err) : IsInfix(sub, err[n])

\* format!("failed to install bundle into {} (xz: {}; gzip: {})", ...)
InstallFailedMsg(xz, gzip) ==
    <<"failed to install bundle into", "base", "(xz:">> \o Display(xz)
        \o <<"; gzip:">> \o Display(gzip) \o <<")">>

\* The errors of kubectl::exec_with_input.
ExecErrors ==
    { Err(<<"failed to spawn kubectl exec">>),
      Err(<<"kubectl exec failed">>),
      Err(<<"kubectl exec failed", "(stdin error:", "broken pipe", ")">>) }

\* decompress_xz on a payload that does not decode.
DecompressErr == WithContext(<<"failed to decompress xz">>, Err(<<"corrupt xz stream">>))

Returned(kind, err) == [kind |-> kind, err |-> err]

IdleBundle ==
    /\ bpc = "off"
    /\ arch = "linux/amd64"
    /\ has_xz = TRUE
    /\ has_gzip = TRUE
    /\ payload_valid = TRUE
    /\ bundle = [VERSION |-> NoFile, ARCH |-> NoFile, sshd |-> <<>>]
    /\ sshd_data = <<>>
    /\ decompressions = 0
    /\ plain_calls = <<>>
    /\ xz_err = NoErr
    /\ gzip_err = NoErr
    /\ bres = Returned("none", NoErr)
    /\ piped = <<>>
    /\ calls = 0
    /\ started = [bundle |-> bundle, prev |-> "none"]

InitBundle ==
    /\ bpc = "check"
    /\ arch \in Archs
    /\ has_xz \in BOOLEAN
    /\ has_gzip \in BOOLEAN
    /\ payload_valid \in BOOLEAN
    /\ bundle \in
         { [VERSION |-> NoFile, ARCH |-> NoFile, sshd |-> <<>>],
           [VERSION |-> BUNDLE_VERSION, ARCH |-> "linux/amd64", sshd |-> SshdOf("linux/amd64")],
           [VERSION |-> "0.0.9+sshd1", ARCH |-> "linux/arm64", sshd |-> <<"sshd", "0.0.9+sshd1", "linux/arm64">>] }
    /\ sshd_data = <<>>
    /\ decompressions = 0
    /\ plain_calls = <<>>
    /\ xz_err = NoErr
    /\ gzip_err = NoErr
    /\ bres = Returned("none", NoErr)
    /\ piped = <<>>
    /\ calls = 1
    /\ started = [bundle |-> bundle, prev |-> "none"]

\* Byte strings are sequences of words.  The xz stream of b (XzEncoder), and
\* gzip_payload: the gzip stream of b.
XzOf(b) == <<"xz-stream">> \o b
\* An encoder that loses the first word of its input.
gzip_payload_lossy(b) == <<"gzip-stream">> \o Tail(b)
gzip_payload(b) == <<"gzip-stream">> \o b
IsXz(p) == Len(p) > 0 /\ Head(p) = "xz-stream"
IsGzip(p) == Len(p) > 0 /\ Head(p) = "gzip-stream"
\* decompress_xz, on a payload that decodes.
decompress_xz(p) == Tail(p)

\* load_bundle_data(arch): the embedded payload for the arch.
bundle_data == IF payload_valid THEN XzOf(SshdOf(arch)) ELSE <<"not an xz stream">>

\* The install scripts' decoders: xz -dc, gzip -dc, cat.
Decodes(label, p) ==
    CASE label = "xz" -> IsXz(p)
      [] label = "gzip" -> IsGzip(p)
      [] OTHER -> TRUE
Decoded(label, p) ==
    CASE label = "xz" -> Tail(p)
      [] label = "gzip" -> Tail(p)
      [] OTHER -> p

\* The install script (set -eu) fed a payload: it writes bundle/sshd through
\* its decoder, then VERSION and ARCH.  It may fail before bundle/sshd is
\* touched, or with bundle/sshd cut short.
Installed(bytes) == [VERSION |-> BUNDLE_VERSION, ARCH |-> arch, sshd |-> bytes]
CutShort == [bundle EXCEPT !.sshd = <<"sshd", "cut short">>]
SpawnErr == Err(<<"failed to spawn kubectl exec">>)
Piped(label, payload) == [label |-> label, payload |-> payload]

\* install_bundle_with_command returning Ok.
InstallOk(label, payload) ==
    /\ Decodes(label, payload)
    /\ piped' = Append(piped, Piped(label, payload))
    /\ bundle' = Installed(Decoded(label, payload))

\* install_bundle_with_command returning the error e.
InstallErr(label, payload, e) ==
    IF e = SpawnErr
    THEN UNCHANGED <<piped, bundle>>
    ELSE /\ piped' = Append(piped, Piped(label, payload))
         /\ \E b \in {bundle, CutShort} : bundle' = b

\* A freshness test that reads bundle/VERSION alone.
CheckVersionOnly ==
    /\ bpc = "check"
    /\ IF bundle.VERSION = BUNDLE_VERSION
       THEN bpc' = "done" /\ bres' = Returned("Ok", NoErr)
       ELSE bpc' = "xz" /\ UNCHANGED bres
    /\ UNCHANGED <<arch, has_xz, has_gzip, payload_valid, bundle, sshd_data,
                   decompressions, plain_calls, xz_err, gzip_err, piped, calls, started>>
    /\ UNCHANGED nonBundleVars

\* if remote_version == Some(BUNDLE_VERSION) && remote_arch == Some(arch)
\* { return Ok(()) }; otherwise load_bundle_data (the embedded payload).
CheckVersion ==
    /\ bpc = "check"
    /\ IF bundle.VERSION = BUNDLE_VERSION /\ bundle.ARCH = arch
       THEN bpc' = "done" /\ bres' = Returned("Ok", NoErr)
       ELSE bpc' = "xz" /\ UNCHANGED bres
    /\ UNCHANGED <<arch, has_xz, has_gzip, payload_valid, bundle, sshd_data,
                   decompressions, plain_calls, xz_err, gzip_err, piped, calls, started>>
    /\ UNCHANGED nonBundleVars

\* An xz attempt that pipes the payload without asking for the tool.
TryInstallXzUnchecked ==
    /\ bpc = "xz"
    /\ \/ /\ InstallOk("xz", bundle_data)
          /\ bpc' = "done"
          /\ bres' = Returned("Ok", NoErr)
          /\ UNCHANGED xz_err
       \/ /\ \E e \in ExecErrors : xz_err' = e /\ InstallErr("xz", bundle_data, e)
          /\ bpc' = "gzip"
          /\ UNCHANGED bres
    /\ UNCHANGED <<arch, has_xz, has_gzip, payload_valid, sshd_data, decompressions, plain_calls,
                   gzip_err, calls, started>>
    /\ UNCHANGED nonBundleVars

\* try_install_xz, and ensure_bundle's match on its result.
TryInstallXz ==
    /\ bpc = "xz"
    /\ \/ /\ ~has_xz
          /\ xz_err' = Err(<<"xz not available in container">>)
          /\ bpc' = "gzip"
          /\ UNCHANGED <<bundle, bres, piped>>
       \/ /\ has_xz
          /\ InstallOk("xz", bundle_data)
          /\ bpc' = "done"
          /\ bres' = Returned("Ok", NoErr)
          /\ UNCHANGED xz_err
       \/ /\ has_xz
          /\ \E e \in ExecErrors : xz_err' = e /\ InstallErr("xz", bundle_data, e)
          /\ bpc' = "gzip"
          /\ UNCHANGED bres
    /\ UNCHANGED <<arch, has_xz, has_gzip, payload_valid, sshd_data, decompressions, plain_calls,
                   gzip_err, calls, started>>
    /\ UNCHANGED nonBundleVars

\* ensure_plain_data: what a call returns, the cache it leaves, and whether
\* it called decompress_xz and wrote the cache.  The cache is None while it
\* is empty.
PlainData(ok, bytes, err, cache, decompressed, wrote) ==
    [ok |-> ok, bytes |-> bytes, err |-> err, cache |-> cache,
     decompressed |-> decompressed, wrote |-> wrote]
\* An ensure_plain_data that decompresses at every call.
ensure_plain_data_uncached(data, cache) ==
    IF IsXz(data)
    THEN PlainData(TRUE, decompress_xz(data), NoErr, decompress_xz(data), TRUE, TRUE)
    ELSE PlainData(FALSE, <<>>, DecompressErr, cache, TRUE, FALSE)
ensure_plain_data(data, cache) ==
    IF cache = <<>>
    THEN IF IsXz(data)
         THEN PlainData(TRUE, decompress_xz(data), NoErr, decompress_xz(data), TRUE, TRUE)
         ELSE PlainData(FALSE, <<>>, DecompressErr, cache, TRUE, FALSE)
    ELSE PlainData(TRUE, cache, NoErr, cache, FALSE, FALSE)
\* The call's effect on the cache of the ensure_bundle call under way.
PlainCall(r) ==
    /\ sshd_data' = r.cache
    /\ decompressions' = decompressions + (IF r.decompressed THEN 1 ELSE 0)
    /\ plain_calls' = Append(plain_calls, r)

\* try_install_gzip, and ensure_bundle's match on its result.
TryInstallGzip ==
    /\ bpc = "gzip"
    /\ \/ /\ ~has_gzip
          /\ gzip_err' = Err(<<"gzip not available in container">>)
          /\ bpc' = "plain"
          /\ UNCHANGED <<bundle, bres, sshd_data, decompressions, plain_calls, piped>>
       \/ /\ has_gzip
          /\ LET r == ensure_plain_data(bundle_data, sshd_data)
             IN  /\ PlainCall(r)
                 /\ IF ~r.ok
                    THEN /\ gzip_err' = r.err
                         /\ bpc' = "plain"
                         /\ UNCHANGED <<bundle, bres, piped>>
                    ELSE \/ /\ InstallOk("gzip", gzip_payload(r.bytes))
                            /\ bpc' = "done"
                            /\ bres' = Returned("Ok", NoErr)
                            /\ UNCHANGED gzip_err
                         \/ /\ \E e \in ExecErrors :
                                 /\ gzip_err' = e
                                 /\ InstallErr("gzip", gzip_payload(r.bytes), e)
                            /\ bpc' = "plain"
                            /\ UNCHANGED bres
    /\ UNCHANGED <<arch, has_xz, has_gzip, payload_valid, xz_err, calls, started>>
    /\ UNCHANGED nonBundleVars

\* ensure_plain_data(...).context("failed to prepare sshd payload for plain
\* install")?, then install_bundle_with_command(... "plain") with the context
\* that quotes xz_err and gzip_err.
PlainInstall ==
    /\ bpc = "plain"
    /\ bpc' = "done"
    /\ LET r == ensure_plain_data(bundle_data, sshd_data)
       IN  /\ PlainCall(r)
           /\ IF ~r.ok
              THEN /\ bres' = Returned("Err",
                          WithContext(<<"failed to prepare sshd payload for plain install">>,
                                      r.err))
                   /\ UNCHANGED <<bundle, piped>>
              ELSE \/ /\ InstallOk("plain", r.bytes)
                      /\ bres' = Returned("Ok", NoErr)
                   \/ \E e \in ExecErrors :
                        /\ InstallErr("plain", r.bytes, e)
                        /\ bres' = Returned("Err",
                                      WithContext(InstallFailedMsg(xz_err, gzip_err), e))
    /\ UNCHANGED <<arch, has_xz, has_gzip, payload_valid, xz_err, gzip_err, calls,
                   started>>
    /\ UNCHANGED nonBundleVars

\* A later helper run calls ensure_bundle with the same version and arch on
\* the same container.
EnsureBundleAgain ==
    /\ bpc = "done"
    /\ calls < MaxCalls
    /\ calls' = calls + 1
    /\ started' = [bundle |-> bundle, prev |-> bres.kind]
    /\ bpc' = "check"
    /\ sshd_data' = <<>>
    /\ decompressions' = 0
    /\ plain_calls' = <<>>
    /\ xz_err' = NoErr
    /\ gzip_err' = NoErr
    /\ bres' = Returned("none", NoErr)
    /\ piped' = <<>>
    /\ UNCHANGED <<arch, has_xz, has_gzip, payload_valid, bundle>>
    /\ UNCHANGED nonBundleVars

NextBundle ==
    \/ CheckVersion \/ TryInstallXz \/ TryInstallGzip \/ PlainInstall
    \/ EnsureBundleAgain

(***************************************************************************)
(* Part IV: the pure functions.  hostspec::parse.                          *)
(***************************************************************************)
\* A string is the sequence of its pieces: "." is the dot, the pieces that
\* end in "--" are the six prefixes, "--" is the separator after any other
\* word, and the rest are words without a dot or a "--" in them.
Dot == "."
Sep == "--"
KnownPrefixes ==
    {"container--", "namespace--", "context--", "pod--", "deployment--", "job--"}
TargetPrefixes == {"pod--", "deployment--", "job--"}
\* ".sshpod"
Suffix == <<Dot, "sshpod">>

\* Option<T>
None == <<>>
Some(x) == <<x>>

\* HostSpecError and Ok(HostSpec)
MissingSuffix == [kind |-> "MissingSuffix"]
\* A missing-separator error that names nothing.
MissingSeparatorUnnamed(token) == [kind |-> "MissingSeparator", segment |-> <<>>]
MissingSeparator(token) == [kind |-> "MissingSeparator", segment |-> token]
InvalidFormat == [kind |-> "InvalidFormat"]
\* A HostSpec with the namespace and the context in each other's place.
HostSpecSwapped(target, namespace, context, container) ==
    [kind |-> "Ok", target |-> target, namespace |-> context,
     context |-> namespace, container |-> container]
HostSpec(target, namespace, context, container) ==
    [kind |-> "Ok", target |-> target, namespace |-> namespace,
     context |-> context, container |-> container]
NotParsed == [kind |-> "none"]

\* str::strip_prefix, str::strip_suffix, str::contains("--")
starts_with(s, pre) == Len(s) >= Len(pre) /\ SubSeq(s, 1, Len(pre)) = pre
ends_with(s, suf) == Len(s) >= Len(suf) /\ SubSeq(s, Len(s) - Len(suf) + 1, Len(s)) = suf
strip_prefix(s, pre) == SubSeq(s, Len(pre) + 1, Len(s))
strip_suffix(s, suf) == SubSeq(s, 1, Len(s) - Len(suf))
contains_sep(token) == \E k \in 1..Len(token) : token[k] \in KnownPrefixes \cup {Sep}

\* host.trim_end_matches('.')
RECURSIVE trim_end_dots(_)
trim_end_dots(s) ==
    IF s # <<>> /\ s[Len(s)] = Dot THEN trim_end_dots(SubSeq(s, 1, Len(s) - 1)) ELSE s

\* str::split('.'): the pieces between the dots, empty ones too.
RECURSIVE split(_)
split(s) ==
    IF \A k \in 1..Len(s) : s[k] # Dot
    THEN <<s>>
    ELSE LET d == CHOOSE k \in 1..Len(s) : s[k] = Dot /\ \A n \in 1..(k - 1) : s[n] # Dot
         IN  <<SubSeq(s, 1, d - 1)>> \o split(SubSeq(s, d + 1, Len(s)))

NonEmpty(t) == t # <<>>

\* A split that keeps the empty pieces.
tokens_unfiltered(s) == split(s)

\* without_suffix.split('.').filter(|s| !s.is_empty())
tokens_of(s) == SelectSeq(split(s), NonEmpty)

\* A field that is never seen as set.
TakenNever(field) == FALSE
\* container.is_some(), namespace.is_some(), context.is_some()
Taken(field) == field # None

\* parse_target
parse_target(token) ==
    IF token = <<>> THEN [ok |-> FALSE]
    ELSE IF starts_with(token, <<"pod--">>)
    THEN IF strip_prefix(token, <<"pod--">>) = <<>> THEN [ok |-> FALSE]
         ELSE [ok |-> TRUE, kind |-> "Pod", name |-> strip_prefix(token, <<"pod--">>)]
    ELSE IF starts_with(token, <<"deployment--">>)
    THEN IF strip_prefix(token, <<"deployment--">>) = <<>> THEN [ok |-> FALSE]
         ELSE [ok |-> TRUE, kind |-> "Deployment",
               name |-> strip_prefix(token, <<"deployment--">>)]
    ELSE IF starts_with(token, <<"job--">>)
    THEN IF strip_prefix(token, <<"job--">>) = <<>> THEN [ok |-> FALSE]
         ELSE [ok |-> TRUE, kind |-> "Job", name |-> strip_prefix(token, <<"job--">>)]
    ELSE [ok |-> FALSE]

\* The loop of parse over the tokens, and what follows it.
RECURSIVE parse_tokens(_, _)
parse_tokens(toks, st) ==
    IF toks = <<>>
    THEN IF st.target = None THEN InvalidFormat
         ELSE HostSpec(st.target[1], st.namespace, st.context, st.container)
    ELSE LET token == Head(toks)
             rest(pre) == strip_prefix(token, <<pre>>)
         IN  IF ~contains_sep(token) THEN MissingSeparator(token)
             ELSE IF starts_with(token, <<"container--">>)
             THEN IF rest("container--") = <<>> \/ Taken(st.container)
                  THEN InvalidFormat
                  ELSE parse_tokens(Tail(toks),
                                    [st EXCEPT !.container = Some(rest("container--"))])
             ELSE IF starts_with(token, <<"namespace--">>)
             THEN IF rest("namespace--") = <<>> \/ Taken(st.namespace)
                  THEN InvalidFormat
                  ELSE parse_tokens(Tail(toks),
                                    [st EXCEPT !.namespace = Some(rest("namespace--"))])
             ELSE IF starts_with(token, <<"context--">>)
             THEN IF rest("context--") = <<>> \/ Taken(st.context)
                  THEN InvalidFormat
                  ELSE parse_tokens(Tail(toks),
                                    [st EXCEPT !.context = Some(rest("context--"))])
             ELSE IF st.target = None
             THEN IF parse_target(token).ok
                  THEN parse_tokens(Tail(toks),
                         [st EXCEPT !.target =
                             Some([kind |-> parse_target(token).kind,
                                   name |-> parse_target(token).name])])
                  ELSE InvalidFormat
             ELSE InvalidFormat

\* hostspec::parse
parse(host_) ==
    IF ~ends_with(trim_end_dots(host_), Suffix) THEN MissingSuffix
    ELSE parse_tokens(tokens_of(strip_suffix(trim_end_dots(host_), Suffix)),
                      [container |-> None, namespace |-> None, context |-> None,
                       target |-> None])

\* The hostnames parse is given: up to MaxTokens tokens out of these, with a
\* dot between them, with or without ".sshpod" after them.
MaxTokens == 4
\* Dots put into a hostname besides those.
MaxExtraDots == 1
HostTokens ==
    {<<"pod--", "a">>, <<"deployment--", "a">>, <<"job--", "b">>,
     <<"namespace--", "a">>, <<"namespace--", "b">>, <<"context--", "a">>,
     <<"container--", "b">>, <<"pod--">>, <<"container--">>,
     <<"foo", Sep, "a">>, <<"foo">>, <<"sshpod">>}

RECURSIVE join_dots(_)
join_dots(toks) ==
    IF toks = <<>> THEN <<>>
    ELSE IF Len(toks) = 1 THEN toks[1]
    ELSE toks[1] \o <<Dot>> \o join_dots(Tail(toks))

Hostname(toks, suffixed) == join_dots(toks) \o (IF suffixed THEN Suffix ELSE <<>>)

TokenLists == UNION {[1..n -> HostTokens] : n \in 0..MaxTokens}

IdleHostspec ==
    /\ host_tokens = <<>>
    /\ host_suffix = FALSE
    /\ host = <<>>
    /\ parsed = NotParsed

InitHostspec ==
    /\ host_tokens \in TokenLists
    /\ host_suffix \in BOOLEAN
    /\ host = Hostname(host_tokens, host_suffix)
    /\ parsed = NotParsed

\* Where one more dot may go: before the first token, next to a dot that is
\* there, after the ".sshpod" at the end.
DotPlaces ==
    {k \in 0..Len(host) :
        \/ k = 0
        \/ k > 0 /\ host[k] = Dot
        \/ k = Len(host) /\ ends_with(trim_end_dots(host), Suffix)}

InsertDot ==
    /\ parsed = NotParsed
    /\ Len(host) - Len(Hostname(host_tokens, host_suffix)) < MaxExtraDots
    /\ \E k \in DotPlaces :
         host' = SubSeq(host, 1, k) \o <<Dot>> \o SubSeq(host, k + 1, Len(host))
    /\ UNCHANGED <<host_tokens, host_suffix, parsed>>
    /\ UNCHANGED nonHostspecVars

HostspecParse ==
    /\ parsed = NotParsed
    /\ parsed' = parse(host)
    /\ UNCHANGED <<host_tokens, host_suffix, host>>
    /\ UNCHANGED nonHostspecVars

NextHostspec == InsertDot \/ HostspecParse

(***************************************************************************)
(* kubectl::select_pod.                                                    *)
(***************************************************************************)
\* How many pods `kubectl get pods -l <selector>` lists at most.
MaxPods == 3

\* PodCondition
Cond(type_name, status) == [type_name |-> type_name, status |-> status]
CondLists ==
    {<<>>, <<Cond("Ready", "True")>>, <<Cond("Ready", "False")>>,
     <<Cond("Initialized", "True"), Cond("Ready", "True")>>,
     <<Cond("Initialized", "True")>>}
\* Option<PodStatus>, with its Option<String> phase and Option<Vec<..>> conditions
PodStatuses ==
    {None} \cup
    {Some([phase |-> ph, conditions |-> cs]) :
        ph \in {None, Some("Running"), Some("Pending")},
        cs \in {None} \cup {Some(c) : c \in CondLists}}
\* PodList.items: the pod at place k is named k.
PodList(statuses) == [k \in DOMAIN statuses |-> [name |-> k, status |-> statuses[k]]]

\* is_running
is_running(pod) ==
    /\ pod.status # None
    /\ pod.status[1].phase # None
    /\ pod.status[1].phase[1] = "Running"

\* A readiness that does not look at the phase.
is_ready_any_phase(pod) ==
    /\ pod.status # None
    /\ pod.status[1].conditions # None
    /\ \E n \in 1..Len(pod.status[1].conditions[1]) :
          /\ pod.status[1].conditions[1][n].type_name = "Ready"
          /\ pod.status[1].conditions[1][n].status = "True"

\* is_ready
is_ready(pod) ==
    IF ~(/\ pod.status # None
         /\ pod.status[1].phase # None
         /\ pod.status[1].phase[1] = "Running")
    THEN FALSE
    ELSE IF pod.status[1].conditions # None
    THEN \E n \in 1..Len(pod.status[1].conditions[1]) :
            /\ pod.status[1].conditions[1][n].type_name = "Ready"
            /\ pod.status[1].conditions[1][n].status = "True"
    ELSE FALSE

\* iter().find(pred): the place of the first item the predicate holds for
\* (0: there is none).
find(items, pred(_)) ==
    IF \E k \in 1..Len(items) : pred(items[k])
    THEN CHOOSE k \in 1..Len(items) :
            pred(items[k]) /\ \A n \in 1..(k - 1) : ~pred(items[n])
    ELSE 0

NotSelected == [ok |-> FALSE, err |-> "not called"]

\* select_pod, from the list kubectl returned on
select_pod(items) ==
    IF items = <<>>
    THEN [ok |-> FALSE, err |-> "no pods found"]
    ELSE LET p == IF find(items, is_ready) # 0 THEN find(items, is_ready)
                  ELSE IF find(items, is_running) # 0 THEN find(items, is_running)
                  ELSE 1
         IN  [ok |-> TRUE, name |-> items[p].name]

IdlePods ==
    /\ pods = <<>>
    /\ selected = NotSelected

InitPods ==
    /\ \E n \in 0..MaxPods : \E statuses \in [1..n -> PodStatuses] : pods = PodList(statuses)
    /\ selected = NotSelected

SelectPod ==
    /\ selected = NotSelected
    /\ selected' = select_pod(pods)
    /\ UNCHANGED pods
    /\ UNCHANGED nonPodVars

NextPods == SelectPod

(***************************************************************************)
(* kubectl::to_selector and the selector of choose_pod_for_job.            *)
(***************************************************************************)
\* How many matchExpressions a selector has at most.
MaxExprs == 2
LabelKeys == {"a", "c"}
LabelValues == {"b", "d"}
\* HashMap<String, String>
LabelMaps == UNION {[S -> LabelValues] : S \in SUBSET LabelKeys}
Operators == {"In", "NotIn", "Exists", "DoesNotExist", "Gt"}
\* MatchExpression
MatchExpressions ==
    {[key |-> "e", operator |-> op, values |-> vs] :
        op \in Operators, vs \in {<<>>, <<"b">>, <<"b", "d">>}}
\* LabelSelector
LabelSelector(labels, exprs) == [match_labels |-> labels, match_expressions |-> exprs]
Selectors ==
    {LabelSelector(labels, exprs) :
        labels \in LabelMaps,
        exprs \in UNION {[1..n -> MatchExpressions] : n \in 0..MaxExprs}}

\* The orders a HashMap may be iterated in.
Orders(labels) ==
    {o \in [1..Cardinality(DOMAIN labels) -> DOMAIN labels] :
        \A m, n \in DOMAIN o : m # n => o[m] # o[n]}

\* [String]::join(sep)
RECURSIVE join(_, _)
join(strs, sep) ==
    IF strs = <<>> THEN <<>>
    ELSE IF Len(strs) = 1 THEN strs[1]
    ELSE strs[1] \o <<sep>> \o join(Tail(strs), sep)

Rendered(text) == [ok |-> TRUE, text |-> text]
Refused(err) == [ok |-> FALSE, err |-> err]
NotRendered == Refused("not called")

\* format!("{k}={v}")
label_part(k, v) == <<k, "=", v>>

\* An expression rendered as `k in (..)` whatever its operator is.
expr_part_always_in(expr) ==
    <<expr.key, " in (">> \o join([n \in 1..Len(expr.values) |-> <<expr.values[n]>>], ",")
        \o <<")">>

\* The arms of the match on expr.operator that push a part.
expr_part(expr) ==
    IF expr.operator = "In"
    THEN <<expr.key, " in (">>
            \o join([n \in 1..Len(expr.values) |-> <<expr.values[n]>>], ",") \o <<")">>
    ELSE IF expr.operator = "NotIn"
    THEN <<expr.key, " notin (">>
            \o join([n \in 1..Len(expr.values) |-> <<expr.values[n]>>], ",") \o <<")">>
    ELSE IF expr.operator = "Exists" THEN <<expr.key>>
    ELSE <<"!", expr.key>>

\* The arms that bail.
expr_error(expr) ==
    IF expr.operator = "In" /\ expr.values = <<>>
    THEN "matchExpressions In requires values"
    ELSE IF expr.operator = "NotIn" /\ expr.values = <<>>
    THEN "matchExpressions NotIn requires values"
    ELSE IF expr.operator \notin {"In", "NotIn", "Exists", "DoesNotExist"}
    THEN "unsupported matchExpression operator"
    ELSE "none"

\* to_selector, with the order its match_labels are iterated in
to_selector(sel, order) ==
    LET exprs == sel.match_expressions
        bad == {n \in 1..Len(exprs) : expr_error(exprs[n]) # "none"}
        parts == [n \in 1..Len(order) |-> label_part(order[n], sel.match_labels[order[n]])]
                    \o [n \in 1..Len(exprs) |-> expr_part(exprs[n])]
    IN  IF bad # {}
        THEN Refused(expr_error(exprs[CHOOSE n \in bad : \A m \in bad : n <= m]))
        ELSE IF parts = <<>> THEN Refused("label selector is empty")
        ELSE Rendered(join(parts, ","))

IdleSelector ==
    /\ sel_in = LabelSelector(<<>>, <<>>)
    /\ sel_out = NotRendered

InitSelector ==
    /\ sel_in \in Selectors
    /\ sel_out = NotRendered

ToSelector ==
    /\ sel_out = NotRendered
    /\ \E order \in Orders(sel_in.match_labels) : sel_out' = to_selector(sel_in, order)
    /\ UNCHANGED sel_in
    /\ UNCHANGED nonSelectorVars

NextSelector == ToSelector

\* Job.spec: its Option<LabelSelector> and its template's Option<metadata>
\* with the labels in it.
JobName == "j"
JobSpecs ==
    {[selector |-> s, metadata |-> m] :
        s \in {None} \cup {Some(sel) : sel \in {x \in Selectors :
                                                  Len(x.match_expressions) < MaxExprs}},
        m \in {None} \cup {Some(labels) : labels \in LabelMaps}}

\* A job whose spec.selector is never looked at.
HasSelectorNever(spec) == FALSE
\* if let Some(selector) = job_spec.spec.selector
HasSelector(spec) == spec.selector # None

\* format!("job-name={}", job)
job_name_selector(name) == Rendered(<<"job-name", "=", name>>)

\* choose_pod_for_job: the selector it hands to select_pod
job_selector(spec, name, order) ==
    IF HasSelector(spec) THEN to_selector(spec.selector[1], order)
    ELSE IF spec.metadata # None
    THEN IF DOMAIN spec.metadata[1] = {}
         THEN job_name_selector(name)
         ELSE to_selector(LabelSelector(spec.metadata[1], <<>>), order)
    ELSE job_name_selector(name)

\* The labels job_selector iterates over.
IteratedLabels(spec) ==
    IF HasSelector(spec) THEN spec.selector[1].match_labels
    ELSE IF spec.metadata # None THEN spec.metadata[1]
    ELSE <<>>

IdleJob ==
    /\ job = [selector |-> None, metadata |-> None]
    /\ job_sel = NotRendered

InitJob ==
    /\ job \in JobSpecs
    /\ job_sel = NotRendered

ChooseJobSelector ==
    /\ job_sel = NotRendered
    /\ \E order \in Orders(IteratedLabels(job)) : job_sel' = job_selector(job, JobName, order)
    /\ UNCHANGED job
    /\ UNCHANGED nonJobVars

NextJob == ChooseJobSelector

(***************************************************************************)
(* Part V.  install::run and merge_config (src/src/install.rs).            *)
(*                                                                         *)
(* A text is a sequence of pieces: the line feed, the carriage return, the *)
(* space, the two marker texts and pieces of other text that hold no       *)
(* white space and are no part of a marker.                                *)
(***************************************************************************)
NL == "\n"
CR == "\r"
SP == " "
START_MARKER == "# >>> sshpod start"
END_MARKER == "# <<< sshpod end"
HostLine == "Host *.sshpod"
OptionLine == "ProxyCommand ~/.local/bin/sshpod proxy --host %h --user %r --port %p"

\* Pieces of the config file's text, and its length in pieces.
MaxText == 4
TextPieces == {NL, CR, SP, START_MARKER, END_MARKER, HostLine}
Texts == UNION {[1..n -> TextPieces] : n \in 0..MaxText}

is_whitespace(piece) == piece \in {NL, CR, SP}

\* str::trim_end and str::trim.
RECURSIVE trim_end(_)
trim_end(text) ==
    IF text # <<>> /\ is_whitespace(text[Len(text)])
    THEN trim_end(SubSeq(text, 1, Len(text) - 1))
    ELSE text
RECURSIVE trim_start(_)
trim_start(text) ==
    IF text # <<>> /\ is_whitespace(Head(text)) THEN trim_start(Tail(text)) ELSE text
trim(text) == trim_start(trim_end(text))

\* str::lines: the text is cut at every line feed, a carriage return right
\* before the line feed goes with it, and a text that ends in a line feed
\* has no empty last line.  A last line that ends in a carriage return and
\* no line feed keeps it in the standard library of today and loses it in
\* the older one (bare_cr_stripped).
strip_cr(line) ==
    IF line # <<>> /\ line[Len(line)] = CR THEN SubSeq(line, 1, Len(line) - 1) ELSE line
RECURSIVE lines_from(_, _, _)
lines_from(text, line, bare_cr_stripped) ==
    IF text = <<>>
    THEN IF line = <<>> THEN <<>>
         ELSE <<IF bare_cr_stripped THEN strip_cr(line) ELSE line>>
    ELSE IF Head(text) = NL
         THEN <<strip_cr(line)>> \o lines_from(Tail(text), <<>>, bare_cr_stripped)
         ELSE lines_from(Tail(text), Append(line, Head(text)), bare_cr_stripped)
lines(text, bare_cr_stripped) == lines_from(text, <<>>, bare_cr_stripped)

\* The loop of merge_config: the lines outside every marker-delimited block.
RECURSIVE kept_lines(_, _)
kept_lines(ls, skipping) ==
    IF ls = <<>> THEN <<>>
    ELSE IF trim(Head(ls)) = <<START_MARKER>> THEN kept_lines(Tail(ls), TRUE)
    ELSE IF skipping THEN kept_lines(Tail(ls), trim(Head(ls)) # <<END_MARKER>>)
    ELSE <<Head(ls)>> \o kept_lines(Tail(ls), FALSE)

\* while kept.last() is blank { kept.pop() }
RECURSIVE pop_blank(_)
pop_blank(kept) ==
    IF kept # <<>> /\ trim(kept[Len(kept)]) = <<>>
    THEN pop_blank(SubSeq(kept, 1, Len(kept) - 1))
    ELSE kept

\* kept.join("\n")
RECURSIVE join_lines(_)
join_lines(ls) ==
    IF ls = <<>> THEN <<>>
    ELSE IF Len(ls) = 1 THEN Head(ls)
    ELSE Head(ls) \o <<NL>> \o join_lines(Tail(ls))

\* render_block, with its first option line for its nine.
render_block ==
    <<START_MARKER, NL, HostLine, NL, SP, SP, OptionLine, NL, END_MARKER, NL>>

merge_config(current, block, bare_cr_stripped) ==
    LET kept == pop_blank(kept_lines(lines(current, bare_cr_stripped), FALSE))
    IN  (IF kept # <<>> THEN join_lines(kept) \o <<NL, NL>> ELSE <<>>)
            \o trim_end(block) \o <<NL>>

\* install::run: nothing run yet.
NotInstalled == "none"

IdleInstall ==
    /\ config_exists = FALSE
    /\ config = <<>>
    /\ backups = 0
    /\ installed = NotInstalled
    /\ bare_cr = FALSE

\* Every config file of the bound, or none, under either standard library.
InitInstall ==
    /\ config_exists \in BOOLEAN
    /\ config \in (IF config_exists THEN Texts ELSE {<<>>})
    /\ backups = 0
    /\ installed = NotInstalled
    /\ bare_cr \in BOOLEAN

\* One `sshpod install`: the file is read, merged and, when the merge
\* changed it, backed up and replaced through a temporary file; when the
\* ~/.ssh directory or the file cannot be read the run fails before that.
MaxInstalls == 2
Install(io_ok) ==
    LET current == IF config_exists THEN config ELSE <<>>
        updated == merge_config(current, render_block, bare_cr)
    IN  /\ backups < MaxInstalls
        /\ IF ~io_ok
           THEN installed' = "failed" /\ UNCHANGED <<config_exists, config, backups>>
           ELSE IF current = updated
           THEN installed' = "No changes needed" /\ UNCHANGED <<config_exists, config, backups>>
           ELSE /\ installed' = "Updated"
                /\ config_exists' = TRUE
                /\ config' = updated
                /\ backups' = IF config_exists THEN backups + 1 ELSE backups
        /\ UNCHANGED bare_cr
        /\ UNCHANGED nonInstallVars

InstallRun == \E io_ok \in BOOLEAN : Install(io_ok)

NextInstall == InstallRun

(***************************************************************************)
(* Part VI.  remote::install_host_keys (src/src/remote.rs): the script fed *)
(* to `sh -s` in the container, one command at a time, by helper runs on   *)
(* one base directory.                                                     *)
(*                                                                         *)
(* A file is a sequence of lines.  A path of hostkeys/ names an inode or   *)
(* nothing; an open file descriptor names the inode, whatever becomes of   *)
(* the path.                                                               *)
(***************************************************************************)
PRIV == "ssh_host_ed25519_key"
PUB == "ssh_host_ed25519_key.pub"
TMP_PRIV == ".tmp_priv"
TMP_PUB == ".tmp_pub"
HostKeyPaths == {PRIV, PUB, TMP_PRIV, TMP_PUB}
NoIno == 0

\* keys::ensure_key("ssh_host_ed25519_key"): the lines of the two key files
\* of ~/.cache/sshpod, the same for every helper of the workstation.
host_keys == [private |-> <<"private key K">>, public |-> <<"public key K">>]
\* The key files of another workstation.
other_keys == [private |-> <<"private key J">>, public |-> <<"public key J">>]

\* A here-document that gives the text as it is: heredoc_as_is.
\* cat > file <<'__SSH_PKEY__' / {private} / __SSH_PKEY__ : the text ends in
\* its own line feed and the here-document adds the line feed of its last
\* line, so the file gets the lines of the text and one empty line.
heredoc_as_is(text) == text
heredoc(text) == text \o <<"">>

\* install_host_keys runs of one helper that are looked at.
MaxKeyRuns == 2

\* The file at a path (NoIno: none), and its lines.
Exists(path) == hk_path[path] # NoIno
FileAt(path) == hk_ino[hk_path[path]]
\* cmp -s a b
cmp(a, b) == Exists(a) /\ Exists(b) /\ FileAt(a) = FileAt(b)

\* The hostkeys directory before any run: the inodes 1..4 are those of the
\* four paths, where they exist.
DirOf(priv, pub, tmp_priv, tmp_pub) ==
    [path |-> [p \in HostKeyPaths |->
                   CASE p = PRIV -> IF priv = <<>> THEN NoIno ELSE 1
                     [] p = PUB -> IF pub = <<>> THEN NoIno ELSE 2
                     [] p = TMP_PRIV -> IF tmp_priv = <<>> THEN NoIno ELSE 3
                     [] OTHER -> IF tmp_pub = <<>> THEN NoIno ELSE 4],
     ino |-> <<priv, pub, tmp_priv, tmp_pub>>]

IdleHostKeys ==
    /\ hk_path = [p \in HostKeyPaths |-> NoIno]
    /\ hk_ino = <<>>
    /\ hk_pc = [h \in Helpers |-> "off"]
    /\ hk_fd = [h \in Helpers |-> NoIno]
    /\ hk_res = [h \in Helpers |-> "none"]
    /\ hk_runs = [h \in Helpers |-> 0]
    /\ hk_start = [h \in Helpers |-> [path |-> hk_path, ino |-> hk_ino]]

\* The directory is empty, or holds the keys an earlier run installed (these
\* keys or others), or only the private one; a run that was cut short may
\* have left its temporary files.
InitHostKeys ==
    /\ \E installed_keys \in {"none", "these", "others", "private only"},
          left \in {"none", "these", "others"} :
         LET ks == IF installed_keys = "others" THEN other_keys ELSE host_keys
             ts == IF left = "others" THEN other_keys ELSE host_keys
             d == DirOf(IF installed_keys = "none" THEN <<>> ELSE heredoc(ks.private),
                        IF installed_keys \in {"none", "private only"} THEN <<>>
                        ELSE heredoc(ks.public),
                        IF left = "none" THEN <<>> ELSE heredoc(ts.private),
                        IF left = "none" THEN <<>> ELSE heredoc(ts.public))
         IN  hk_path = d.path /\ hk_ino = d.ino
    /\ hk_pc = [h \in Helpers |-> "off"]
    /\ hk_fd = [h \in Helpers |-> NoIno]
    /\ hk_res = [h \in Helpers |-> "none"]
    /\ hk_runs = [h \in Helpers |-> 0]
    /\ hk_start = [h \in Helpers |-> [path |-> hk_path, ino |-> hk_ino]]

HkAt(h, pc) == hk_pc[h] = pc
HkGoto(h, pc) == hk_pc' = [hk_pc EXCEPT ![h] = pc]
HkRunning(h) == hk_pc[h] \notin {"off", "done", "failed"}

\* kubectl exec ... sh -s is spawned with the script on its stdin; umask,
\* mkdir -p and chmod 700 of the directories.
begin_install(h) ==
    /\ hk_pc[h] \in {"off", "done", "failed"}
    /\ hk_runs[h] < MaxKeyRuns
    /\ hk_runs' = [hk_runs EXCEPT ![h] = @ + 1]
    /\ hk_res' = [hk_res EXCEPT ![h] = "none"]
    /\ hk_start' = [hk_start EXCEPT ![h] = [path |-> hk_path, ino |-> hk_ino]]
    /\ HkGoto(h, "open_priv")
    /\ UNCHANGED <<hk_path, hk_ino, hk_fd>>
    /\ UNCHANGED nonHostKeyVars

\* `> "$TMP"`: the shell opens the path for the command, creating the file
\* or cutting the one that is there down to nothing.
open_tmp(h, pc, path, next) ==
    /\ HkAt(h, pc)
    /\ IF Exists(path)
       THEN /\ hk_ino' = [hk_ino EXCEPT ![hk_path[path]] = <<>>]
            /\ hk_fd' = [hk_fd EXCEPT ![h] = hk_path[path]]
            /\ UNCHANGED hk_path
       ELSE /\ hk_ino' = Append(hk_ino, <<>>)
            /\ hk_path' = [hk_path EXCEPT ![path] = Len(hk_ino) + 1]
            /\ hk_fd' = [hk_fd EXCEPT ![h] = Len(hk_ino) + 1]
    /\ HkGoto(h, next)
    /\ UNCHANGED <<hk_res, hk_runs, hk_start>>
    /\ UNCHANGED nonHostKeyVars

\* cat writes the here-document into the file it was given.
write_tmp(h, pc, text, next) ==
    /\ HkAt(h, pc)
    /\ hk_ino' = [hk_ino EXCEPT ![hk_fd[h]] = heredoc(text)]
    /\ hk_fd' = [hk_fd EXCEPT ![h] = NoIno]
    /\ HkGoto(h, next)
    /\ UNCHANGED <<hk_path, hk_res, hk_runs, hk_start>>
    /\ UNCHANGED nonHostKeyVars

\* One command of the `if` list: on to the next when it is true, to the mv
\* lines when it is false.
test_cmd(h, pc, holds, next) ==
    /\ HkAt(h, pc)
    /\ HkGoto(h, IF holds THEN next ELSE "mv_priv")
    /\ UNCHANGED <<hk_path, hk_ino, hk_fd, hk_res, hk_runs, hk_start>>
    /\ UNCHANGED nonHostKeyVars

\* The script ends: kubectl exec returns its status to install_host_keys.
HkExit(h, ok) ==
    /\ HkGoto(h, IF ok THEN "done" ELSE "failed")
    /\ hk_res' = [hk_res EXCEPT ![h] = IF ok THEN "Ok" ELSE "failed to install host keys"]

\* rm -f "$TMP_PRIV" "$TMP_PUB"; exit 0
rm_tmp(h) ==
    /\ HkAt(h, "rm")
    /\ hk_path' = [hk_path EXCEPT ![TMP_PRIV] = NoIno, ![TMP_PUB] = NoIno]
    /\ HkExit(h, TRUE)
    /\ UNCHANGED <<hk_ino, hk_fd, hk_runs, hk_start>>
    /\ UNCHANGED nonHostKeyVars

\* mv "$TMP" "$KEY": a rename, which fails when the temporary file is not
\* there; under set -e the script then ends with the status of mv.
mv_tmp(h, pc, tmp, key, next) ==
    /\ HkAt(h, pc)
    /\ IF Exists(tmp)
       THEN /\ hk_path' = [hk_path EXCEPT ![key] = hk_path[tmp], ![tmp] = NoIno]
            /\ HkGoto(h, next)
            /\ UNCHANGED hk_res
       ELSE /\ HkExit(h, FALSE)
            /\ UNCHANGED hk_path
    /\ UNCHANGED <<hk_ino, hk_fd, hk_runs, hk_start>>
    /\ UNCHANGED nonHostKeyVars

\* chmod 600 "$PRIV" "$PUB", the last line of the script.
chmod_keys(h) ==
    /\ HkAt(h, "chmod")
    /\ HkExit(h, Exists(PRIV) /\ Exists(PUB))
    /\ UNCHANGED <<hk_path, hk_ino, hk_fd, hk_runs, hk_start>>
    /\ UNCHANGED nonHostKeyVars

OpenTmpPriv(h) == hk_pc[h] = "open_priv" /\ open_tmp(h, "open_priv", TMP_PRIV, "write_priv")
WriteTmpPriv(h) ==
    hk_pc[h] = "write_priv" /\ write_tmp(h, "write_priv", host_keys.private, "open_pub")
OpenTmpPub(h) == hk_pc[h] = "open_pub" /\ open_tmp(h, "open_pub", TMP_PUB, "write_pub")
WriteTmpPub(h) ==
    hk_pc[h] = "write_pub" /\ write_tmp(h, "write_pub", host_keys.public, "test_priv")
\* [ -f "$PRIV" ] && [ -f "$PUB" ] && cmp -s ... && cmp -s ...
TestPriv(h) == hk_pc[h] = "test_priv" /\ test_cmd(h, "test_priv", Exists(PRIV), "test_pub")
TestPub(h) == hk_pc[h] = "test_pub" /\ test_cmd(h, "test_pub", Exists(PUB), "cmp_priv")
CmpPriv(h) == hk_pc[h] = "cmp_priv" /\ test_cmd(h, "cmp_priv", cmp(PRIV, TMP_PRIV), "cmp_pub")
CmpPub(h) == hk_pc[h] = "cmp_pub" /\ test_cmd(h, "cmp_pub", cmp(PUB, TMP_PUB), "rm")
RmTmp(h) == hk_pc[h] = "rm" /\ rm_tmp(h)
MvPriv(h) == hk_pc[h] = "mv_priv" /\ mv_tmp(h, "mv_priv", TMP_PRIV, PRIV, "mv_pub")
MvPub(h) == hk_pc[h] = "mv_pub" /\ mv_tmp(h, "mv_pub", TMP_PUB, PUB, "chmod")
ChmodKeys(h) == hk_pc[h] = "chmod" /\ chmod_keys(h)

HostKeyStep(h) ==
    \/ OpenTmpPriv(h) \/ WriteTmpPriv(h) \/ OpenTmpPub(h) \/ WriteTmpPub(h)
    \/ TestPriv(h) \/ TestPub(h) \/ CmpPriv(h) \/ CmpPub(h)
    \/ RmTmp(h) \/ MvPriv(h) \/ MvPub(h) \/ ChmodKeys(h)

\* A helper calls install_host_keys, whatever the other helper is doing.
BeginInstall(h) == hk_runs[h] < MaxKeyRuns /\ begin_install(h)
\* A helper calls install_host_keys while no other run is under way.
BeginInstallAlone(h) == (\A g \in Helpers : ~HkRunning(g)) /\ begin_install(h)

\* Runs of install_host_keys on one base directory, in every interleaving.
NextHostKeys == \E h \in Helpers : BeginInstall(h) \/ HostKeyStep(h)
\* Runs of it one after another.
NextHostKeysSeq == \E h \in Helpers : BeginInstallAlone(h) \/ HostKeyStep(h)

(***************************************************************************)
(* Part VII.  The port of a Ready outcome: rand_port in the launch loop,   *)
(* `echo "$PORT" >&3`, and the parse in ensure_sshd_running                *)
(* (src/src/remote.rs).                                                    *)
(***************************************************************************)
\* `od -An -N2 -tu2 /dev/urandom` prints one unsigned 16-bit value.
U16Max == 65535
RandomU16 == 0..U16Max

DigitChars == <<"0", "1", "2", "3", "4", "5", "6", "7", "8", "9">>
IsDigit(c) == \E d \in 1..10 : DigitChars[d] = c
DigitOf(c) == (CHOOSE d \in 1..10 : DigitChars[d] = c) - 1

\* The decimal text the shell writes for the value of $(( ... )).
RECURSIVE decimal(_)
decimal(n) ==
    IF n < 10 THEN <<DigitChars[n + 1]>>
    ELSE decimal(n \div 10) \o <<DigitChars[(n % 10) + 1]>>

\* `echo "$PORT" >&3`: the text and a newline.
echo(text) == text \o <<NL>>

\* str::parse::<u16>: no digit at all, a character that is no digit, or a
\* value over u16::MAX is an error.
RECURSIVE parse_digits(_, _)
parse_digits(text, acc) ==
    IF text = <<>> THEN Some(acc)
    ELSE IF ~IsDigit(Head(text)) THEN None
    ELSE LET next_acc == acc * 10 + DigitOf(Head(text))
         IN IF next_acc > U16Max THEN None ELSE parse_digits(Tail(text), next_acc)
parse_u16(text) == IF text = <<>> THEN None ELSE parse_digits(text, 0)

IdlePort ==
    /\ urandom = 0
    /\ port_pc = "off"
    /\ chosen_port = NoPort
    /\ port_output = <<>>
    /\ port_result = None
InitPort ==
    /\ urandom \in RandomU16
    /\ port_pc = "rand_port"
    /\ chosen_port = NoPort
    /\ port_output = <<>>
    /\ port_result = None

\* PORT="$(rand_port)"
ChoosePort ==
    /\ port_pc = "rand_port"
    /\ chosen_port' = rand_port(urandom)
    /\ port_pc' = "Ready"
    /\ UNCHANGED <<urandom, port_output, port_result>>
    /\ UNCHANGED nonPortVars

\* The Ready outcome: echo "$PORT" >&3
EmitPort ==
    /\ port_pc = "Ready"
    /\ port_output' = echo(decimal(chosen_port))
    /\ port_pc' = "parse"
    /\ UNCHANGED <<urandom, chosen_port, port_result>>
    /\ UNCHANGED nonPortVars

\* output.trim().parse::<u16>()
ParsePort ==
    /\ port_pc = "parse"
    /\ port_result' = parse_u16(trim(port_output))
    /\ port_pc' = "done"
    /\ UNCHANGED <<urandom, chosen_port, port_output>>
    /\ UNCHANGED nonPortVars

NextPort == ChoosePort \/ EmitPort \/ ParsePort

(***************************************************************************)
(* Part VIII.  The namespace of the resolved target: the first steps of    *)
(* resolve_remote_target (src/src/proxy.rs) over a kubeconfig              *)
(* (ensure_context_exists, get_context_namespace of src/src/kubectl.rs).   *)
(***************************************************************************)
ContextNames == {"default", "prod"}
Namespaces == {"", "team-a", "kube-x"}

\* The kubeconfig files: the contexts they define, each with its namespace
\* ("": none set), and the current context that kubectl uses when it is
\* given no --context.
Kubeconfigs ==
    UNION {[contexts : [S -> Namespaces], current : S] :
              S \in (SUBSET ContextNames) \ {{}}}

\* A HostSpec's context and namespace parts.
HostSpecParts ==
    [context : {None} \cup {Some(c) : c \in ContextNames},
     namespace : {None} \cup {Some("ns")}]

\* list_contexts
list_contexts(cfg) == DOMAIN cfg.contexts

\* get_context_namespace: the jsonpath selects the namespace of the context
\* of that name; empty output is None.
get_context_namespace(cfg, name) ==
    IF name \in DOMAIN cfg.contexts /\ cfg.contexts[name] # ""
    THEN Some(cfg.contexts[name])
    ELSE None

\* Option<String>::unwrap_or_default
unwrap_or_default(opt) == IF opt = None THEN "" ELSE opt[1]

IdleNamespace ==
    /\ kubeconfig = [contexts |-> [c \in {"default"} |-> ""], current |-> "default"]
    /\ hs = [context |-> None, namespace |-> None]
    /\ ns_pc = "off"
    /\ validated = {}
    /\ target_namespace = ""
    /\ ns_res = "none"
InitNamespace ==
    /\ kubeconfig \in Kubeconfigs
    /\ hs \in HostSpecParts
    /\ ns_pc = "ensure_context"
    /\ validated = {}
    /\ target_namespace = ""
    /\ ns_res = "none"

\* if let Some(ctx) = &host.context { ensure_context_exists(ctx).await?; }
EnsureContext(kubectl_ok) ==
    /\ ns_pc = "ensure_context"
    /\ IF hs.context = None
       THEN /\ ns_pc' = "namespace"
            /\ UNCHANGED <<validated, ns_res>>
       ELSE /\ validated' = validated \cup {hs.context[1]}
            /\ IF kubectl_ok /\ hs.context[1] \in list_contexts(kubeconfig)
               THEN ns_pc' = "namespace" /\ UNCHANGED ns_res
               ELSE ns_pc' = "done" /\ ns_res' = "Err"
    /\ UNCHANGED <<kubeconfig, hs, target_namespace>>
    /\ UNCHANGED nonNsVars

\* let namespace = if let Some(ns) = host.namespace ... else if let
\* Some(ctx) = &host.context ... else get_context_namespace("default") ...
FillNamespace(kubectl_ok) ==
    /\ ns_pc = "namespace"
    /\ ns_pc' = "done"
    /\ IF hs.namespace # None
       THEN target_namespace' = hs.namespace[1] /\ ns_res' = "Ok"
       ELSE IF ~kubectl_ok
       THEN ns_res' = "Err" /\ UNCHANGED target_namespace
       ELSE /\ ns_res' = "Ok"
            /\ target_namespace' =
                 IF hs.context # None
                 THEN unwrap_or_default(get_context_namespace(kubeconfig, hs.context[1]))
                 ELSE unwrap_or_default(get_context_namespace(kubeconfig, "default"))
    /\ UNCHANGED <<kubeconfig, hs, validated>>
    /\ UNCHANGED nonNsVars

EnsureContextStep == \E kubectl_ok \in BOOLEAN : EnsureContext(kubectl_ok)
FillNamespaceStep == \E kubectl_ok \in BOOLEAN : FillNamespace(kubectl_ok)
NextNamespace == EnsureContextStep \/ FillNamespaceStep

(***************************************************************************)
(* Part IX.  choose_pod_for_deployment and choose_pod_for_job as far as    *)
(* their errors: fetch_with_ready_list, then select_pod                    *)
(* (src/src/kubectl.rs).                                                   *)
(***************************************************************************)
WorkloadKinds == {"deployment", "job"}
\* The selectors to_selector renders, as one piece of text.
SelectorTexts == {"app=web", "job-name=batch"}
\* The names list_resources returns: the ready resources of the kind.
ReadyLists == {<<>>, <<"web">>, <<"web", "api">>}
\* The pods the selector matches: none, or one pod of some status.
MatchedPods == {<<>>} \cup {PodList(<<st>>) : st \in PodStatuses}

\* run_kubectl_json: bail!("kubectl {} failed: {}", action, stderr)
kubectl_failed(action) == <<"kubectl ", action, " failed: ", "stderr">>

\* fetch_with_ready_list, the Err arm: the message, with the ready resources
\* appended when their listing succeeded and is not empty.
ready_list_suffix(kind, list) ==
    <<" Ready ", kind, "s: ">> \o join([n \in 1..Len(list) |-> <<list[n]>>], ", ")
fetch_error(message, list_ok, list, kind) ==
    IF list_ok /\ list # <<>> THEN message \o ready_list_suffix(kind, list) ELSE message

\* select_pod: bail!("no pods found for {} selector `{}` in namespace {}", ..)
no_pods_found(kind, selector, namespace) ==
    <<"no pods found for ", kind, " selector ", selector, " in namespace ", namespace>>

NotChosen == [ok |-> FALSE, err |-> <<<<"not called">>>>]
IdleChoose ==
    /\ wl = [kind |-> "deployment", selector |-> "app=web", pods |-> <<>>, ready |-> <<>>]
    /\ choose_pc = "off"
    /\ choose_res = NotChosen
InitChoose ==
    /\ wl \in [kind : WorkloadKinds, selector : SelectorTexts, pods : MatchedPods,
               ready : ReadyLists]
    /\ choose_pc = "fetch"
    /\ choose_res = NotChosen

\* fetch_with_ready_list(context, namespace, kind, ["get", kind, name, ..])
FetchWorkload(fetch_ok, list_ok) ==
    /\ choose_pc = "fetch"
    /\ IF fetch_ok
       THEN choose_pc' = "select_pod" /\ UNCHANGED choose_res
       ELSE /\ choose_pc' = "done"
            /\ choose_res' =
                 [ok |-> FALSE,
                  err |-> <<fetch_error(kubectl_failed("get " \o wl.kind), list_ok,
                                        wl.ready, wl.kind)>>]
    /\ UNCHANGED wl
    /\ UNCHANGED nonChooseVars

\* select_pod(context, namespace, &selector, kind)
SelectWorkloadPod(get_ok) ==
    /\ choose_pc = "select_pod"
    /\ choose_pc' = "done"
    /\ choose_res' =
         IF ~get_ok THEN [ok |-> FALSE, err |-> <<kubectl_failed("get pods")>>]
         ELSE IF ~select_pod(wl.pods).ok
         THEN [ok |-> FALSE, err |-> <<no_pods_found(wl.kind, wl.selector, "ns")>>]
         ELSE [ok |-> TRUE, err |-> <<>>]
    /\ UNCHANGED wl
    /\ UNCHANGED nonChooseVars

FetchWorkloadStep == \E fetch_ok, list_ok \in BOOLEAN : FetchWorkload(fetch_ok, list_ok)
SelectWorkloadPodStep == \E get_ok \in BOOLEAN : SelectWorkloadPod(get_ok)
NextChoose == FetchWorkloadStep \/ SelectWorkloadPodStep

(***************************************************************************)
(* Part X.  kubectl::exec_with_input (src/src/kubectl.rs): the kubectl     *)
(* exec subprocess, its stdin pipe, and what the call returns.             *)
(***************************************************************************)
\* How many bytes of input write_all has to write.
MaxInput == 2
ExitCodes == {0, 1, 137}
\* What the subprocess may have written to its stdout.
ExecOutputs == {<<"out", NL>>, <<SP, "out">>}

BrokenPipe == "broken pipe"

\* The end of exec_with_input with the stdin error looked at before the exit
\* status.
exec_result_stdin_first(code, stdin_err, stdout_text) ==
    IF stdin_err # None
    THEN [kind |-> "Err", err |-> Err(<<"kubectl exec stdin error:", stdin_err[1]>>), out |-> <<>>]
    ELSE IF code # 0
    THEN [kind |-> "Err", err |-> Err(<<"kubectl exec failed">>), out |-> <<>>]
    ELSE [kind |-> "Ok", err |-> NoErr, out |-> trim(stdout_text)]

\* The end of exec_with_input, from `if !output.status.success()` on.
exec_result(code, stdin_err, stdout_text) ==
    IF code # 0
    THEN IF stdin_err # None
         THEN [kind |-> "Err",
               err |-> Err(<<"kubectl exec failed", "(stdin error:", stdin_err[1], ")">>),
               out |-> <<>>]
         ELSE [kind |-> "Err", err |-> Err(<<"kubectl exec failed">>), out |-> <<>>]
    ELSE IF stdin_err # None
    THEN [kind |-> "Err", err |-> Err(<<"kubectl exec stdin error:", stdin_err[1]>>), out |-> <<>>]
    ELSE [kind |-> "Ok", err |-> NoErr, out |-> trim(stdout_text)]

NoExecResult == [kind |-> "none", err |-> NoErr, out |-> <<>>]
IdleExec ==
    /\ ex_pc = "off"
    /\ reads_stdin = FALSE
    /\ ex_stdout = <<>>
    /\ ex_stdin = "none"
    /\ ex_child = "none"
    /\ ex_status = 0
    /\ ex_written = 0
    /\ input_err = None
    /\ ex_calls = <<>>
    /\ ex_res = NoExecResult
InitExec ==
    /\ ex_pc = "spawn"
    /\ reads_stdin \in BOOLEAN
    /\ ex_stdout \in ExecOutputs
    /\ ex_stdin = "none"
    /\ ex_child = "none"
    /\ ex_status = 0
    /\ ex_written = 0
    /\ input_err = None
    /\ ex_calls = <<>>
    /\ ex_res = NoExecResult

\* cmd.spawn().context("failed to spawn kubectl exec")?
ExecSpawn(spawn_ok) ==
    /\ ex_pc = "spawn"
    /\ ex_calls' = Append(ex_calls, "spawn")
    /\ IF spawn_ok
       THEN /\ ex_child' = "running"
            /\ ex_stdin' = "open"
            /\ ex_pc' = "write_all"
            /\ UNCHANGED ex_res
       ELSE /\ ex_pc' = "done"
            /\ ex_res' = [kind |-> "Err", err |-> SpawnErr, out |-> <<>>]
            /\ UNCHANGED <<ex_child, ex_stdin>>
    /\ UNCHANGED <<reads_stdin, ex_stdout, ex_status, ex_written, input_err>>
    /\ UNCHANGED nonExecVars

\* stdin.write_all(input): one more byte goes into the pipe, or the write
\* fails because the subprocess has gone; input_err keeps the error.
ExecWrite ==
    /\ ex_pc = "write_all"
    /\ IF ex_child # "running"
       THEN /\ input_err' = Some(BrokenPipe)
            /\ ex_pc' = "drop_stdin"
            /\ ex_calls' = Append(ex_calls, "write_all")
            /\ UNCHANGED ex_written
       ELSE /\ ex_written' = ex_written + 1
            /\ IF ex_written + 1 = MaxInput
               THEN ex_pc' = "drop_stdin" /\ ex_calls' = Append(ex_calls, "write_all")
               ELSE UNCHANGED <<ex_pc, ex_calls>>
            /\ UNCHANGED input_err
    /\ UNCHANGED <<reads_stdin, ex_stdout, ex_stdin, ex_child, ex_status, ex_res>>
    /\ UNCHANGED nonExecVars

\* The end of the `if let Some(mut stdin)` block: stdin is dropped, which
\* closes the pipe.
ExecDropStdin ==
    /\ ex_pc = "drop_stdin"
    /\ ex_stdin' = "closed"
    /\ ex_calls' = Append(ex_calls, "drop stdin")
    /\ ex_pc' = "wait_with_output"
    /\ UNCHANGED <<reads_stdin, ex_stdout, ex_child, ex_status, ex_written, input_err, ex_res>>
    /\ UNCHANGED nonExecVars

\* child.wait_with_output() returns once the subprocess has exited; then the
\* rest of the function.
ExecWait(wait_ok) ==
    /\ ex_pc = "wait_with_output"
    /\ ex_child = "exited"
    /\ ex_calls' = Append(ex_calls, "wait_with_output")
    /\ ex_pc' = "done"
    /\ IF wait_ok
       THEN /\ ex_child' = "reaped"
            /\ ex_res' = exec_result(ex_status, input_err, ex_stdout)
       ELSE /\ ex_res' = [kind |-> "Err",
                          err |-> WithContext(<<"failed to wait for kubectl exec">>,
                                              Err(<<"io error">>)),
                          out |-> <<>>]
            /\ UNCHANGED ex_child
    /\ UNCHANGED <<reads_stdin, ex_stdout, ex_stdin, ex_status, ex_written, input_err>>
    /\ UNCHANGED nonExecVars

\* The subprocess exits.  One that reads its stdin to the end exits with
\* status 0 only after the pipe is closed.
ExecChildExit(code) ==
    /\ ex_child = "running"
    /\ (reads_stdin /\ code = 0) => ex_stdin = "closed"
    /\ ex_child' = "exited"
    /\ ex_status' = code
    /\ UNCHANGED <<ex_pc, reads_stdin, ex_stdout, ex_stdin, ex_written, input_err,
                   ex_calls, ex_res>>
    /\ UNCHANGED nonExecVars

ExecSpawnStep == \E spawn_ok \in BOOLEAN : ExecSpawn(spawn_ok)
ExecWaitStep == \E wait_ok \in BOOLEAN : ExecWait(wait_ok)
ExecChildExitStep == \E code \in ExitCodes : ExecChildExit(code)
NextExec ==
    \/ ExecSpawnStep \/ ExecWrite \/ ExecDropStdin \/ ExecWaitStep \/ ExecChildExitStep

(***************************************************************************)
(* The specifications.                                                     *)
(***************************************************************************)
\* The pure functions and the install while none of them is called.
IdleFns == IdleHostspec /\ IdlePods /\ IdleSelector /\ IdleJob /\ IdleResolve /\ IdleInstall /\ IdlePort /\ IdleNamespace /\ IdleChoose /\ IdleExec
\* The base directory while no helper run is modelled.
IdleScript ==
    /\ shared_key = FALSE
    /\ fs = [authorized_keys |-> <<>>, hostkey |-> TRUE, sshd_pid |-> NoPid,
             sshd_port |-> NoPort, sshd_config |-> NoPort]
    /\ procs = FreshProcs
    /\ spc = [h \in Helpers |-> "off"]
    /\ i = [h \in Helpers |-> 0]
    /\ j = [h \in Helpers |-> 0]
    /\ PORT = [h \in Helpers |-> NoPort]
    /\ fd3 = [h \in Helpers |-> NoPort]
    /\ launches = [h \in Helpers |-> 0]
    /\ hst = [h \in Helpers |-> "idle"]
    /\ hres = [h \in Helpers |-> [kind |-> "none", port |-> NoPort]]
    /\ clock = [h \in Helpers |-> 0]
    /\ child = [h \in Helpers |-> "none"]

\* One run of the server-start script under ensure_sshd_running.
\* Each helper has a key of its own.
OwnKeys == shared_key = FALSE
\* The helpers run on one workstation and supply the same key.
SameKey == shared_key = TRUE
InitOneRun == OwnKeys /\ InitScript /\ InitProxy /\ IdleIdentity /\ IdleBundle /\ IdleHostKeys /\ IdleFns
SpecScript == InitOneRun /\ [][NextScript]_vars
\* Two concurrent runs of it on one base directory.
SpecRace == InitOneRun /\ [][NextRace]_vars
\* Two concurrent runs of it that supply the same public key.
InitSameKeyRuns == SameKey /\ InitScript /\ InitProxy /\ IdleIdentity /\ IdleBundle /\ IdleHostKeys /\ IdleFns
SpecSameKey == InitSameKeyRuns /\ [][NextRace]_vars
\* install_host_keys runs on one base directory: in every interleaving, and
\* one after another.
InitHostKeyRuns ==
    IdleScript /\ InitProxy /\ IdleIdentity /\ IdleBundle /\ InitHostKeys /\ IdleFns
SpecHostKeys == InitHostKeyRuns /\ [][NextHostKeys]_vars
SpecHostKeysSeq == InitHostKeyRuns /\ [][NextHostKeysSeq]_vars
\* Runs of it one after another on one base directory.
SpecSeq == InitOneRun /\ [][NextSeq]_vars
\* One proxy run.
Init == IdleScript /\ InitProxy /\ InitIdentity /\ IdleBundle /\ IdleHostKeys /\ IdleFns
SpecProxy == Init /\ [][NextProxy]_vars

Next == NextProxy
Spec == SpecProxy

\* The parts that are not pure functions, at rest.
IdleProgram == IdleScript /\ InitProxy /\ IdleIdentity /\ IdleBundle /\ IdleHostKeys

\* A proxy run, as far as the first remote commands that follow the
\* resolution, for each hostname's container and each pod's containers.
InitRunResolve ==
    /\ IdleScript /\ InitProxy /\ IdleIdentity /\ IdleBundle /\ IdleHostKeys
    /\ IdleHostspec /\ IdlePods /\ IdleSelector /\ IdleJob /\ InitResolve /\ IdleInstall /\ IdlePort /\ IdleNamespace /\ IdleChoose /\ IdleExec
NextResolve ==
    \/ ParseHost \/ ResolveTarget \/ EnsureKeys \/ TryAcquireLock \/ AssertLoginUser
SpecResolve == InitRunResolve /\ [][NextResolve]_vars

\* One call of hostspec::parse.
InitParse == IdleProgram /\ InitHostspec /\ IdlePods /\ IdleSelector /\ IdleJob /\ IdleResolve /\ IdleInstall /\ IdlePort /\ IdleNamespace /\ IdleChoose /\ IdleExec
SpecHostspec == InitParse /\ [][NextHostspec]_vars

\* One call of select_pod.
InitSelectPod == IdleProgram /\ IdleHostspec /\ InitPods /\ IdleSelector /\ IdleJob /\ IdleResolve /\ IdleInstall /\ IdlePort /\ IdleNamespace /\ IdleChoose /\ IdleExec
SpecPods == InitSelectPod /\ [][NextPods]_vars

\* One call of to_selector.
InitToSelector == IdleProgram /\ IdleHostspec /\ IdlePods /\ InitSelector /\ IdleJob /\ IdleResolve /\ IdleInstall /\ IdlePort /\ IdleNamespace /\ IdleChoose /\ IdleExec
SpecSelector == InitToSelector /\ [][NextSelector]_vars

\* choose_pod_for_job coming to its selector.
InitChooseJob == IdleProgram /\ IdleHostspec /\ IdlePods /\ IdleSelector /\ InitJob /\ IdleResolve /\ IdleInstall /\ IdlePort /\ IdleNamespace /\ IdleChoose /\ IdleExec
SpecJob == InitChooseJob /\ [][NextJob]_vars

\* `sshpod install`, run again and again on each config file.
InitInstallRun ==
    /\ IdleProgram
    /\ IdleHostspec /\ IdlePods /\ IdleSelector /\ IdleJob /\ IdleResolve /\ InitInstall /\ IdlePort /\ IdleNamespace /\ IdleChoose /\ IdleExec
SpecInstall == InitInstallRun /\ [][NextInstall]_vars

\* One port chosen, emitted and parsed, for each 16-bit random value.
InitPortRun ==
    /\ IdleProgram
    /\ IdleHostspec /\ IdlePods /\ IdleSelector /\ IdleJob /\ IdleResolve /\ IdleInstall /\ IdleNamespace /\ IdleChoose /\ IdleExec
    /\ InitPort
SpecPort == InitPortRun /\ [][NextPort]_vars

\* The namespace resolved for each HostSpec over each kubeconfig.
InitNamespaceRun ==
    /\ IdleProgram
    /\ IdleHostspec /\ IdlePods /\ IdleSelector /\ IdleJob /\ IdleResolve /\ IdleInstall /\ IdlePort /\ IdleChoose /\ IdleExec
    /\ InitNamespace
SpecNamespace == InitNamespaceRun /\ [][NextNamespace]_vars

\* One pod chosen for each workload.
InitChooseRun ==
    /\ IdleProgram
    /\ IdleHostspec /\ IdlePods /\ IdleSelector /\ IdleJob /\ IdleResolve /\ IdleInstall /\ IdlePort /\ IdleNamespace /\ IdleExec
    /\ InitChoose
SpecChoose == InitChooseRun /\ [][NextChoose]_vars

\* One call of exec_with_input.
InitExecRun ==
    /\ IdleProgram
    /\ IdleHostspec /\ IdlePods /\ IdleSelector /\ IdleJob /\ IdleResolve /\ IdleInstall /\ IdlePort /\ IdleNamespace /\ IdleChoose
    /\ InitExec
SpecExec == InitExecRun /\ [][NextExec]_vars

\* One ensure_bundle call.
InitEnsureBundle ==
    IdleScript /\ InitProxy /\ IdleIdentity /\ InitBundle /\ IdleHostKeys /\ IdleFns
SpecBundle == InitEnsureBundle /\ [][NextBundle]_vars

\* What run and the tasks it started do by themselves once they can: every
\* step but the ends of the two copies (they wait for the user and the peer)
\* and the subprocess exiting unasked.
RunProgress ==
    \/ ParseHost \/ ResolveTarget \/ EnsureKeys \/ TryAcquireLock
    \/ AssertLoginUser \/ DetectArch \/ EnsureBundleStep \/ InstallHostKeys
    \/ EnsureSshd
    \/ PfSpawn \/ PfAnnounce \/ PfExitedEarly \/ PfStdoutEOF \/ PfTimeout
    \/ Connect
    \/ PumpJoin
    \/ StopKill \/ StopWait \/ StopJoinStdout \/ StopJoinStderr
    \/ RunReturn
    \/ StdoutDrained \/ StderrDrained

\* One proxy run whose own steps are not postponed for ever.
SpecProxyLive == Init /\ [][NextProxy]_vars /\ WF_vars(RunProgress)

\* One proxy run in which stop may be called again on the PortForward it has
\* stopped.
NextStop == NextProxy \/ StopAgain
SpecStop == Init /\ [][NextStop]_vars /\ WF_vars(RunProgress)

(***************************************************************************)
(* Properties of the proxy run.                                            *)
(***************************************************************************)
\* C2: when run has returned, no subprocess it spawned (the kubectl exec of
\* the server-start script, kubectl port-forward) is still running.
C2_NoSubprocessLeftRunning ==
    rpc = "done" => (sshd_exec # "running" /\ pf_child # "running")

\* C3: once PortForward::start has returned a handle (a local port was
\* announced), run does not return without having called stop.
C3_StopOnEveryExit ==
    (rpc = "done" /\ local_port # NoPort) => Logged("stop")

\* C4: once either direction has reached EOF, the pump returns and the
\* port-forward is eventually stopped, whatever the other direction does.
C4_PumpEndsOnFirstEOF ==
    (rpc = "pump" /\ (to_remote = "ok" \/ from_remote = "ok")) ~> Logged("stop")

\* C4 (amended): the pump returns only when both directions have completed,
\* and once both have, the pump returns and the port-forward is eventually
\* stopped.
C4_PumpEndsWhenBothDone ==
    /\ [](Logged("pump") => (to_remote # "copying" /\ from_remote # "copying"))
    /\ (rpc = "pump" /\ to_remote # "copying" /\ from_remote # "copying")
          ~> Logged("stop")

C4_Witness ==
    /\ Logged("stop")
    /\ to_remote = "ok"
    /\ from_remote = "ok"
    /\ pf_child = "reaped"

\* The steps that do not end run when they fail: the lock attempt, whose
\* outcome is dropped, and the pump, after which stop still runs.
NonFatal == {"lock", "pump"}

\* C9: the steps run in the fixed order, each only if every earlier fatal
\* step succeeded; port-forward targets the port ensure_sshd_running
\* returned, and the TCP connect uses the port port-forward announced.
C9_StepsInOrderWithPorts ==
    /\ Len(log) <= Len(StepOrder)
    /\ \A n \in 1..Len(log) : log[n].step = StepOrder[n]
    /\ \A n \in 1..(Len(log) - 1) : log[n].ok \/ log[n].step \in NonFatal
    /\ fwd_remote_port # NoPort => log[9] = Entry("sshd", TRUE, fwd_remote_port)
    /\ conn_port # NoPort => log[10] = Entry("port-forward", TRUE, conn_port)

C9_Witness ==
    /\ rpc = "done"
    /\ Len(log) = Len(StepOrder)
    /\ fwd_remote_port = 31415
    /\ conn_port = 40002
    /\ run_result = "Ok"

\* C10: when the pump has finished, run returns only after stop, and returns
\* the pump's error if there is one, otherwise the result of stop.
C10_StopThenPumpError ==
    (rpc = "done" /\ Logged("pump")) =>
        /\ Logged("stop")
        /\ stop_result # "none"
        /\ run_result = IF pump_result # "Ok" THEN pump_result ELSE stop_result

C10_Witness ==
    /\ rpc = "done"
    /\ pump_result = "from_remote failed"
    /\ run_result = "from_remote failed"
    /\ Logged("stop")
    /\ pf_child = "reaped"

(***************************************************************************)
(* Properties of the server-start script.                                  *)
(***************************************************************************)
\* Run h writes a port to fd 3 in this step.
Emits(h) == fd3[h] = NoPort /\ fd3'[h] # NoPort

\* C1: whenever a run emits a port, sshd.pid names a server process started
\* for exactly that port and sshd.port holds that port.  (A server that
\* dies by itself after the script's kill -0 is not held against the script:
\* only the port of the process the pid file names is compared.)
C1_EmittedPortIsServedPort ==
    [][\A h \in Helpers :
          Emits(h) =>
             /\ fs.sshd_pid # NoPid
             /\ procs[fs.sshd_pid].st \in {"listening", "dead"}
             /\ procs[fs.sshd_pid].port = fd3'[h]
             /\ fs.sshd_port = fd3'[h]]_vars

\* C6: when every launch attempt fails (the script ends in GiveUp), the
\* helper's result is the failed exec of the script's "sshd did not start",
\* after the 30th attempt.
C6_HelperReportsGiveUp ==
    \A h \in Helpers :
        (spc[h] = "GiveUp" /\ hst[h] = "done") =>
            (hres[h].kind = "ExecFailed" /\ i[h] = MaxAttempts)

\* C7: a run that passes the host-key check ends only in Reuse, Ready or
\* GiveUp, launches at most 30 servers, polls at most 10 times per launch
\* and has emitted a port only in Reuse and Ready.
C7_EndsInReuseReadyGiveUp ==
    \A h \in Helpers :
        /\ (spc[h] \in Terminal /\ spc[h] # "NoHostKey") =>
               spc[h] \in {"Reuse", "Ready", "GiveUp"}
        /\ launches[h] <= MaxAttempts
        /\ j[h] <= MaxPolls
        /\ fd3[h] # NoPort => spc[h] \in {"Reuse", "Ready"}

\* C8: a run whose probe finds sshd.pid naming a live process and sshd.port
\* present emits the saved port and ends in Reuse; none of its steps writes
\* a file of the base directory or starts a process.
C8_ReuseLeavesBaseUntouched ==
    [][\A h \in Helpers :
          /\ (spc[h] = "Probe" /\ ProbeRunning /\ spc'[h] # spc[h]) =>
                (spc'[h] = "ReuseEmit" /\ fs' = fs /\ procs' = procs /\ launches' = launches)
          /\ (spc[h] = "ReuseEmit" /\ spc'[h] # spc[h]) =>
                /\ spc'[h] = "Reuse"
                /\ fd3'[h] = fs.sshd_port
                /\ fs' = fs /\ procs' = procs /\ launches'[h] = 0
          /\ spc[h] = "Reuse" => (spc'[h] = "Reuse" /\ fd3'[h] = fd3[h])]_vars

\* The spec's scenario: sshd.port holds 31415, the script emits 31415 and
\* launches nothing.
C8_Witness ==
    /\ spc[1] = "Reuse" /\ fd3[1] = 31415 /\ launches[1] = 0
    /\ hres[1] = [kind |-> "Ok", port |-> 31415]
(***************************************************************************)
(* Properties of ensure_bundle.                                            *)
(***************************************************************************)
\* C5: when ensure_bundle fails after the xz and the gzip attempt, the error
\* it returns has the xz attempt's error string and the gzip attempt's error
\* string in it.
C5_FinalErrorQuotesBothAttempts ==
    (bpc = "done" /\ bres.kind = "Err" /\ xz_err # NoErr /\ gzip_err # NoErr) =>
        /\ Contains(bres.err, Display(xz_err))
        /\ Contains(bres.err, Display(gzip_err))

\* The install paths in the order of the chain.
ChainRank(label) ==
    CASE label = "xz" -> 1
      [] label = "gzip" -> 2
      [] OTHER -> 3

\* C11: the install commands of one call run in the order xz, gzip, plain;
\* the xz command runs only if xz is available; the gzip stage is entered
\* only from the xz stage with the xz attempt failed, the plain stage only
\* from the gzip stage with the gzip attempt failed; a path that succeeds
\* ends the call with success, its command the last one run.
C11_FallbackChain ==
    /\ [](\A m, n \in 1..Len(piped) :
             m < n => ChainRank(piped[m].label) < ChainRank(piped[n].label))
    /\ []((bpc = "done" /\ bres.kind = "Ok" /\ piped # <<>>) =>
             bundle = Installed(Decoded(piped[Len(piped)].label,
                                        piped[Len(piped)].payload)))
    /\ [][/\ (bpc = "xz" /\ piped' # piped) => has_xz
          /\ bpc' = "gzip" => (bpc = "xz" /\ xz_err' # NoErr)
          /\ bpc' = "plain" => (bpc = "gzip" /\ gzip_err' # NoErr /\ xz_err # NoErr)
          /\ (bpc \in {"xz", "gzip", "plain"} /\ bres'.kind = "Ok") =>
                /\ bpc' = "done"
                /\ Len(piped') = Len(piped) + 1
                /\ piped'[Len(piped')].label = bpc]_vars

C11_Witness ==
    /\ bpc = "done"
    /\ bres.kind = "Ok"
    /\ Len(piped) = 2
    /\ piped[1].label = "xz"
    /\ piped[2].label = "gzip"

Occurrences(file_lines, line) == Cardinality({n \in 1..Len(file_lines) : file_lines[n] = line})
IsPrefix(a, b) == Len(a) <= Len(b) /\ SubSeq(b, 1, Len(a)) = a

\* C14: with runs one after another, once a run is past its authorized_keys
\* step the key line it was given is in authorized_keys exactly once, and no
\* step removes or rewrites a line that was there.
C14_EachKeyOnceAppendOnly ==
    /\ [](\A h \in Helpers :
             spc[h] \notin {"off", "AuthorizedKeys", "AppendKey"} =>
                Occurrences(fs.authorized_keys, KeyOf(h)) = 1)
    /\ [][IsPrefix(fs.authorized_keys, fs'.authorized_keys)]_vars

(***************************************************************************)
(* Properties of the lock attempt and the identity check.                  *)
(***************************************************************************)
\* C15: the identity check succeeds exactly when the container's uid is read
\* as 0, whatever the requested login user, or its login name is read and
\* equals the requested login user; when it fails run ends there: no bundle
\* install, host-key install, server start or port-forward follows.
C15_IdentityCheck ==
    Logged("identity") =>
        /\ log[5].ok <=>
              (id_exec /\ (container_uid = 0 \/ container_user = login_user))
        /\ ~log[5].ok =>
              /\ rpc = "done"
              /\ run_result # "Ok"
              /\ Len(log) = 5
              /\ sshd_exec = "none"
              /\ pf_child = "none"
              /\ fwd_remote_port = NoPort

C15_Witness ==
    /\ rpc = "done"
    /\ container_uid = 1000
    /\ container_user = "app"
    /\ login_user = "root"
    /\ log[Len(log)] = Entry("identity", FALSE, NoPort)
    /\ run_result = "This Pod runs as non-root"

\* C16: the lock attempt can always be taken and, whatever it comes to
\* (directory made, already there, base missing, exec failing), run goes on
\* to the identity check with no error recorded; no other step changes what
\* the attempt came to.
C16_LockNeverFatal ==
    /\ [](rpc = "lock" => ENABLED TryAcquireLock)
    /\ [][/\ rpc = "lock" =>
                /\ rpc' = "identity"
                /\ lock' \in LockOutcomes
                /\ run_result' = run_result
          /\ rpc # "lock" => lock' = lock]_vars

C16_Witness ==
    /\ rpc = "done"
    /\ run_result = "Ok"
    /\ lock = "exec failed"
    /\ Logged("stop")

(***************************************************************************)
(* Properties of PortForward::stop.                                        *)
(***************************************************************************)
StopOps == <<"kill", "wait", "join stdout", "join stderr">>
StopDid == [k \in 1..Len(stop_trace) |-> stop_trace[k].op]

C18_DirectionsIndependent ==
    /\ [][(to_remote = "copying" /\ to_remote' = "ok") =>
              /\ write_half' = "shutdown"
              /\ from_remote' = from_remote
              /\ <<sock_read, stdout_written, stdout_flushed>>' =
                     <<sock_read, stdout_written, stdout_flushed>>]_vars
    /\ [][(from_remote = "copying" /\ from_remote' # "copying") =>
              /\ to_remote' = to_remote
              /\ <<stdin_read, sock_written, write_half>>' =
                     <<stdin_read, sock_written, write_half>>]_vars
    /\ [](from_remote = "ok" => (stdout_written = sock_read /\ stdout_flushed))
    /\ []((rpc = "pump" /\ from_remote = "copying") =>
              /\ stdout_written < sock_read => ENABLED FromRemoteWrite
              /\ (stdout_written = sock_read /\ sock_read < MaxBytes)
                     => ENABLED FromRemoteRead
              /\ stdout_written = sock_read => ENABLED FromRemoteEOF)
    /\ []((rpc = "pump" /\ to_remote = "copying") =>
              /\ sock_written < stdin_read => ENABLED ToRemoteWrite
              /\ (sock_written = stdin_read /\ stdin_read < MaxBytes)
                     => ENABLED ToRemoteRead
              /\ sock_written = stdin_read => ENABLED ToRemoteEOF)

\* stdin has ended and the write half is shut down while a byte read from
\* the socket is still to be written to stdout.
C18_Witness ==
    /\ rpc = "pump"
    /\ to_remote = "ok"
    /\ write_half = "shutdown"
    /\ from_remote = "copying"
    /\ sock_read = 1
    /\ stdout_written = 0

\* The error of the direction that failed first.
FirstFailure ==
    LET failed == {k \in 1..Len(pump_order) : pump_order[k].res = "err"}
        first == CHOOSE k \in failed : \A n \in failed : k <= n
    IN  IF pump_order[first].dir = "to_remote" THEN "to_remote failed"
        ELSE "from_remote failed"

\* C19: pump has returned only when both directions have ended; what it
\* returned is an error exactly when a direction failed; and when both
\* failed it is the error of the direction that failed first.
C19_FirstErrorReturned ==
    pump_result # "none" =>
        /\ to_remote # "copying" /\ from_remote # "copying"
        /\ pump_result # "Ok" <=> (to_remote = "err" \/ from_remote = "err")
        /\ (to_remote = "err" /\ from_remote = "err") => pump_result = FirstFailure

\* C20: the byte counters are printed only when both directions have ended,
\* and each is the number of bytes written to its endpoint: bytes_to_remote
\* to the socket, bytes_from_remote to stdout.
C20_CountersAreBytesWritten ==
    reported # NoReport =>
        /\ to_remote # "copying" /\ from_remote # "copying"
        /\ pump_result # "none"
        /\ reported.bytes_to_remote = sock_written
        /\ reported.bytes_from_remote = stdout_written

C20_Witness ==
    /\ reported # NoReport
    /\ reported.bytes_to_remote = 1
    /\ reported.bytes_from_remote = 0
    /\ sock_written = 1
    /\ stdout_flushed

(***************************************************************************)
(* Properties of hostspec::parse.                                          *)
(***************************************************************************)
\* The hostname ends in ".sshpod", dots after it aside.
HasSuffix == ends_with(trim_end_dots(host), Suffix)
\* Its tokens before the ".sshpod".
BeforeSuffix ==
    IF host_suffix THEN host_tokens ELSE SubSeq(host_tokens, 1, Len(host_tokens) - 1)
WithPrefix(toks, pre) == {k \in 1..Len(toks) : toks[k][1] = pre}
WithPrefixIn(toks, pres) == {k \in 1..Len(toks) : toks[k][1] \in pres}
\* The body of the one token with this prefix, if there is one.
FieldOf(toks, pre) ==
    IF WithPrefix(toks, pre) = {} THEN None
    ELSE Some(Tail(toks[CHOOSE k \in WithPrefix(toks, pre) : TRUE]))
TargetKind(pre) ==
    IF pre = "pod--" THEN "Pod" ELSE IF pre = "deployment--" THEN "Deployment" ELSE "Job"
TargetOf(toks) ==
    LET t == toks[CHOOSE k \in WithPrefixIn(toks, TargetPrefixes) : TRUE]
    IN  [kind |-> TargetKind(t[1]), name |-> Tail(t)]

\* The defects of a list of tokens.
UnknownPrefix(toks) == \E k \in 1..Len(toks) : toks[k][1] \notin KnownPrefixes
EmptyBody(toks) == \E k \in 1..Len(toks) : toks[k][1] \in KnownPrefixes /\ Len(toks[k]) = 1
Repeated(toks) ==
    \E pre \in {"namespace--", "context--", "container--"} :
        Cardinality(WithPrefix(toks, pre)) > 1
ManyTargets(toks) == Cardinality(WithPrefixIn(toks, TargetPrefixes)) > 1
NoTarget(toks) == WithPrefixIn(toks, TargetPrefixes) = {}
Failed == parsed.kind \in {"MissingSuffix", "MissingSeparator", "InvalidFormat"}

\* C21: a hostname of one target token and at most one namespace--, one
\* context-- and one container-- token, each with a body, in any order, with
\* ".sshpod" after them, parses to the HostSpec of exactly those bodies, the
\* fields without a token None; the order of the tokens plays no part.
C21_ValidHostnameParses ==
    (/\ parsed # NotParsed
     /\ host = Hostname(host_tokens, TRUE)
     /\ host_suffix
     /\ ~UnknownPrefix(host_tokens) /\ ~EmptyBody(host_tokens)
     /\ ~Repeated(host_tokens) /\ ~ManyTargets(host_tokens) /\ ~NoTarget(host_tokens))
    => /\ parsed.kind = "Ok"
       /\ parsed.target = TargetOf(host_tokens)
       /\ parsed.namespace = FieldOf(host_tokens, "namespace--")
       /\ parsed.context = FieldOf(host_tokens, "context--")
       /\ parsed.container = FieldOf(host_tokens, "container--")

C21_Witness ==
    /\ host_tokens = << <<"container--", "b">>, <<"namespace--", "a">>,
                        <<"job--", "b">>, <<"context--", "a">> >>
    /\ host = Hostname(host_tokens, TRUE)
    /\ parsed = HostSpec([kind |-> "Job", name |-> <<"b">>], Some(<<"a">>),
                         Some(<<"a">>), Some(<<"b">>))

\* C22: parse fails with MissingSuffix for a hostname without ".sshpod" at
\* its end, and fails for one that has a token with none of the six
\* prefixes, a second namespace--, context-- or container-- token, more than
\* one target token, a prefix with nothing after it, or no target token.
C22_DefectiveHostnameFails ==
    parsed # NotParsed =>
        /\ ~HasSuffix => parsed = MissingSuffix
        /\ (/\ HasSuffix
            /\ \/ UnknownPrefix(BeforeSuffix) \/ EmptyBody(BeforeSuffix)
               \/ Repeated(BeforeSuffix) \/ ManyTargets(BeforeSuffix)
               \/ NoTarget(BeforeSuffix))
           => (Failed /\ parsed # MissingSuffix)

C22_Witness ==
    /\ host_tokens = << <<"pod--", "a">>, <<"context--", "a">>, <<"context--", "a">> >>
    /\ host_suffix
    /\ parsed = InvalidFormat

\* The first token without a "--" in it.
FirstBare(toks) ==
    CHOOSE k \in 1..Len(toks) :
        /\ ~contains_sep(toks[k])
        /\ \A n \in 1..(k - 1) : contains_sep(toks[n])
SomeBare(toks) == \E k \in 1..Len(toks) : ~contains_sep(toks[k])
Accepted(toks) ==
    /\ ~UnknownPrefix(toks) /\ ~EmptyBody(toks)
    /\ ~Repeated(toks) /\ ~ManyTargets(toks)

\* C23: a hostname that ends in ".sshpod" and has a token without "--" is
\* rejected with the missing-separator error, and the segment the error
\* names is a token without "--".
C23_BareTokenIsMissingSeparator ==
    (parsed # NotParsed /\ HasSuffix /\ SomeBare(BeforeSuffix)) =>
        /\ parsed.kind = "MissingSeparator"
        /\ \E k \in 1..Len(BeforeSuffix) :
              ~contains_sep(BeforeSuffix[k]) /\ parsed.segment = BeforeSuffix[k]

\* C23 as the code has it: such a hostname is rejected; the tokens are taken
\* from left to right and the first one that is not accepted decides the
\* error, so the error is the missing-separator one, naming the first token
\* without "--", exactly when the tokens before that one are all accepted.
C23_FirstRejectedTokenDecides ==
    (parsed # NotParsed /\ HasSuffix /\ SomeBare(BeforeSuffix)) =>
        LET k == FirstBare(BeforeSuffix)
        IN  /\ Failed
            /\ Accepted(SubSeq(BeforeSuffix, 1, k - 1))
                  <=> (/\ parsed.kind = "MissingSeparator"
                       /\ parsed.segment = BeforeSuffix[k])
            /\ ~Accepted(SubSeq(BeforeSuffix, 1, k - 1)) => parsed = InvalidFormat

C23_Witness ==
    /\ host_tokens = << <<"deployment--", "a">>, <<"foo">>, <<"pod--">> >>
    /\ host_suffix
    /\ parsed = MissingSeparator(<<"foo">>)

\* A HostSpec is the same HostSpec, an error the same kind of error.
SameOutcome(a, b) == IF a.kind = "Ok" THEN a = b ELSE a.kind = b.kind

\* C24: a hostname with more dots before its first token, between its
\* tokens or after its ".sshpod" parses to what the hostname without them
\* parses to: the same HostSpec or the same kind of error.
C24_ExtraDotsHarmless ==
    parsed # NotParsed => SameOutcome(parsed, parse(Hostname(host_tokens, host_suffix)))

\* C24 as the code has it: so it is for every hostname but the bare word
\* "sshpod", which lacks the suffix while ".sshpod" has it and no target.
C24_ExtraDotsHarmlessButBareSuffix ==
    /\ (parsed # NotParsed /\ Hostname(host_tokens, host_suffix) # <<"sshpod">>)
          => SameOutcome(parsed, parse(Hostname(host_tokens, host_suffix)))
    /\ (parsed # NotParsed /\ Hostname(host_tokens, host_suffix) = <<"sshpod">>)
          => parsed = (IF host[1] = Dot THEN InvalidFormat ELSE MissingSuffix)

C24_Witness ==
    /\ host_tokens = << <<"pod--", "a">>, <<"context--", "a">> >>
    /\ host = <<"pod--", "a", Dot, Dot, "context--", "a", Dot, "sshpod">>
    /\ parsed = HostSpec([kind |-> "Pod", name |-> <<"a">>], None, Some(<<"a">>), None)

(***************************************************************************)
(* Properties of select_pod.                                               *)
(***************************************************************************)
PhaseRunning(k) ==
    pods[k].status # None /\ pods[k].status[1].phase = Some("Running")
ReadyTrue(k) ==
    /\ pods[k].status # None
    /\ pods[k].status[1].conditions # None
    /\ \E n \in 1..Len(pods[k].status[1].conditions[1]) :
          pods[k].status[1].conditions[1][n] = Cond("Ready", "True")
First(S) == CHOOSE k \in S : \A n \in S : k <= n
RunningReady == {k \in 1..Len(pods) : PhaseRunning(k) /\ ReadyTrue(k)}
Running == {k \in 1..Len(pods) : PhaseRunning(k)}

\* C25: of a list with pods in it, select_pod returns the name of the first
\* pod whose phase is Running and that has a Ready condition of status True;
\* without such a pod, of the first pod whose phase is Running; without one,
\* of the first pod; of an empty list it returns an error.
C25_SelectPodPreference ==
    selected # NotSelected =>
        IF pods = <<>> THEN ~selected.ok
        ELSE /\ selected.ok
             /\ selected.name =
                   pods[IF RunningReady # {} THEN First(RunningReady)
                        ELSE IF Running # {} THEN First(Running)
                        ELSE 1].name

\* The first pod is ready but Pending, the second Running but not ready,
\* the third Running and ready.
C25_Witness ==
    /\ Len(pods) = 3
    /\ ~PhaseRunning(1) /\ ReadyTrue(1)
    /\ PhaseRunning(2) /\ ~ReadyTrue(2)
    /\ PhaseRunning(3) /\ ReadyTrue(3)
    /\ selected.ok
    /\ selected.name = 3

(***************************************************************************)
(* Properties of to_selector and of the job's selector.                    *)
(***************************************************************************)
\* What an entry of matchExpressions is to be rendered as.
PartOf(expr) ==
    CASE expr.operator = "In" ->
            <<expr.key, " in (">>
               \o join([n \in 1..Len(expr.values) |-> <<expr.values[n]>>], ",") \o <<")">>
      [] expr.operator = "NotIn" ->
            <<expr.key, " notin (">>
               \o join([n \in 1..Len(expr.values) |-> <<expr.values[n]>>], ",") \o <<")">>
      [] expr.operator = "Exists" -> <<expr.key>>
      [] expr.operator = "DoesNotExist" -> <<"!", expr.key>>
      [] OTHER -> <<>>
\* The entries to_selector has to refuse.
Unrenderable(sel) ==
    \/ \E n \in 1..Len(sel.match_expressions) :
          \/ /\ sel.match_expressions[n].operator \in {"In", "NotIn"}
             /\ sel.match_expressions[n].values = <<>>
          \/ sel.match_expressions[n].operator
                \notin {"In", "NotIn", "Exists", "DoesNotExist"}
    \/ DOMAIN sel.match_labels = {} /\ sel.match_expressions = <<>>
\* One part for each label, in some order, then one for each expression.
PartsOf(sel, order) ==
    [n \in 1..Len(order) |-> <<order[n], "=", sel.match_labels[order[n]]>>]
        \o [n \in 1..Len(sel.match_expressions) |-> PartOf(sel.match_expressions[n])]

\* C26: to_selector returns an error exactly for a selector with an In or
\* NotIn without values, with another operator than In, NotIn, Exists and
\* DoesNotExist, or with no label and no expression; of every other selector
\* it returns the parts k=v of its labels, in some order, and after them the
\* parts `k in (..)`, `k notin (..)`, `k`, `!k` of its expressions, one
\* part for each entry, with a comma between the parts.
C26_SelectorRendering ==
    sel_out # NotRendered =>
        /\ ~sel_out.ok <=> Unrenderable(sel_in)
        /\ sel_out.ok =>
              \E order \in Orders(sel_in.match_labels) :
                 /\ Len(PartsOf(sel_in, order))
                       = Cardinality(DOMAIN sel_in.match_labels)
                            + Len(sel_in.match_expressions)
                 /\ sel_out.text = join(PartsOf(sel_in, order), ",")

C26_Witness ==
    /\ DOMAIN sel_in.match_labels = {"a", "c"}
    /\ Len(sel_in.match_expressions) = 2
    /\ sel_in.match_expressions[1].operator = "NotIn"
    /\ sel_in.match_expressions[2].operator = "DoesNotExist"
    /\ sel_out.ok
    /\ sel_out.text = <<"c", "=", "d", ",", "a", "=", "b", ",",
                        "e", " notin (", "b", ",", "d", ")", ",", "!", "e">>

\* C27: the selector of a job is what to_selector makes of its spec.selector
\* when it has one; without one, what to_selector makes of the labels of
\* its pod template when it has any; and job-name=<name> otherwise, that
\* is exactly when the job has neither.
C27_JobSelectorSources ==
    job_sel # NotRendered =>
        /\ job.selector # None =>
              \E order \in Orders(job.selector[1].match_labels) :
                 job_sel = to_selector(job.selector[1], order)
        /\ (job.selector = None /\ job.metadata # None /\ DOMAIN job.metadata[1] # {}) =>
              \E order \in Orders(job.metadata[1]) :
                 job_sel = to_selector(LabelSelector(job.metadata[1], <<>>), order)
        /\ (job_sel.ok /\ job_sel.text = <<"job-name", "=", JobName>>)
              <=> (/\ job.selector = None
                   /\ job.metadata = None \/ DOMAIN job.metadata[1] = {})

\* A job with a selector and with labels: the selector is the source.
C27_Witness ==
    /\ job.selector # None
    /\ job.selector[1].match_labels = [k \in {"a"} |-> "b"]
    /\ job.selector[1].match_expressions = <<>>
    /\ job.metadata # None
    /\ job.metadata[1] = [k \in {"c"} |-> "d"]
    /\ job_sel.ok
    /\ job_sel.text = <<"a", "=", "b">>

(***************************************************************************)
(* Properties of the container resolution.                                 *)
(***************************************************************************)
HasContainer(c) == \E n \in 1..Len(pod_containers) : pod_containers[n] = c
ResolveFailed == \E n \in 1..Len(log) : log[n] = Entry("resolve", FALSE, NoPort)
ResolveDone == Logged("resolve")
\* The kubectl exec calls and the port-forward of a run.
NoRemoteCommand ==
    /\ lock = "none"
    /\ sshd_exec = "none"
    /\ pf_child = "none"
    /\ \A n \in 1..Len(log) : log[n].step \in {"parse", "resolve"}

\* C28: once the pod is found and inspected, a container the hostname names
\* becomes the target's container when the pod has a container of that
\* name, and the run fails when it has not; with no container named, the
\* pod's only container becomes the target's container when the pod has
\* exactly one, and the run fails with the message that asks for a
\* container-- token when it has none or several; a run whose resolution
\* failed has ended, has executed no remote command and takes no further
\* step.
C28_ContainerResolution ==
    /\ (ResolveDone /\ ~ResolveFailed) =>
          /\ want_container # Unnamed =>
                (HasContainer(want_container[1]) /\ target_container = want_container[1])
          /\ want_container = Unnamed =>
                (Len(pod_containers) = 1 /\ target_container = pod_containers[1])
    /\ ResolveFailed =>
          /\ rpc = "done"
          /\ run_result # "Ok"
          /\ target_container = NoContainer
          /\ NoRemoteCommand
          /\ ~ENABLED NextProxy
    /\ (ResolveDone /\ want_container # Unnamed /\ ~HasContainer(want_container[1]))
          => ResolveFailed
    /\ (ResolveDone /\ want_container = Unnamed /\ Len(pod_containers) # 1)
          => (ResolveFailed /\ run_result \in {"This Pod has multiple containers",
                                                "failed to resolve target"})

\* No container named and two containers in the pod: the run has failed
\* asking for one, with nothing executed.
C28_Witness ==
    /\ want_container = Unnamed
    /\ pod_containers = <<"main", "side">>
    /\ rpc = "done"
    /\ run_result = "This Pod has multiple containers"
    /\ lock = "none"

(***************************************************************************)
(* Properties of merge_config.                                             *)
(***************************************************************************)
\* The last install ended well: the config file is merge_config of what it
\* was before.
Merged == installed \in {"Updated", "No changes needed"}
\* The places of the text where the block stands.
BlockAt(text, block) ==
    {n \in 1..(Len(text) - Len(block) + 1) : SubSeq(text, n, n + Len(block) - 1) = block}
\* The lines of the text that are a start marker.
StartLines(text) ==
    LET ls == lines(text, bare_cr)
    IN  {n \in 1..Len(ls) : trim(ls[n]) = <<START_MARKER>>}

\* C29: a config file that is merge_config(c, b) of some text c and the
\* block b is left as it is by another merge_config with b, and it holds
\* the block exactly once, with no other line that starts a marker-delimited
\* block.
C29_MergeIdempotentBlockOnce ==
    Merged =>
        /\ merge_config(config, render_block, bare_cr) = config
        /\ Cardinality(BlockAt(config, render_block)) = 1
        /\ Cardinality(StartLines(config)) = 1

(***************************************************************************)
(* Properties of ensure_plain_data.                                        *)
(***************************************************************************)
\* The ensure_plain_data calls of the ensure_bundle call that wrote the cache.
CacheWrites == {n \in 1..Len(plain_calls) : plain_calls[n].wrote}

\* C30: within an ensure_bundle call, every ensure_plain_data call that
\* follows a successful one succeeds, returns the bytes that one returned,
\* which are the bytes stored in the cache, and does not call decompress_xz;
\* decompress_xz has run once for them, and the cache is written at most
\* once.
C30_PlainDataCachedOnce ==
    /\ \A m, n \in 1..Len(plain_calls) :
          (m < n /\ plain_calls[m].ok) =>
              /\ plain_calls[n].ok
              /\ plain_calls[n].bytes = plain_calls[m].bytes
              /\ plain_calls[n].bytes = sshd_data
              /\ ~plain_calls[n].decompressed
              /\ decompressions = m
    /\ Cardinality(CacheWrites) <= 1

\* The gzip install decompressed the payload and failed in the container,
\* and the plain install has asked for the payload again.
C30_Witness ==
    /\ Len(plain_calls) = 2
    /\ plain_calls[1].ok /\ plain_calls[1].wrote
    /\ plain_calls[2].ok
    /\ sshd_data # <<>>
    /\ decompressions = 1

(***************************************************************************)
(* Properties of concurrent runs on one base directory.                    *)
(***************************************************************************)
\* The run of helper h is past the authorized_keys lines of the script.
PastKeys(h) == spc[h] \notin {"off", "AuthorizedKeys", "AppendKey"}

\* C31: when concurrent helper runs supply the same public-key line, then
\* once every run is past the authorized_keys lines of the script,
\* authorized_keys holds that line exactly once.
C31_SameKeyOnce ==
    (shared_key /\ \A h \in Helpers : PastKeys(h)) =>
        Occurrences(fs.authorized_keys, KeyOf(1)) = 1

(***************************************************************************)
(* Properties of install_host_keys.                                        *)
(***************************************************************************)
\* The file the script makes of a key text: its lines and one empty line.
KeyFile(text) == text \o <<"">>
NoRunUnderWay == \A h \in Helpers : ~HkRunning(h)
SomeRunOk == \E h \in Helpers : hk_pc[h] = "done"
NoTmpLeft == ~Exists(TMP_PRIV) /\ ~Exists(TMP_PUB)
\* The directory hk_start[h] held the files of the supplied keys.
StartedInstalled(h) ==
    LET at(path) == hk_start[h].ino[hk_start[h].path[path]]
    IN  /\ hk_start[h].path[PRIV] # NoIno /\ at(PRIV) = KeyFile(host_keys.private)
        /\ hk_start[h].path[PUB] # NoIno /\ at(PUB) = KeyFile(host_keys.public)
\* The installed key files are the very files the run of h found.
NotReplaced(h) ==
    /\ hk_path[PRIV] = hk_start[h].path[PRIV]
    /\ hk_path[PUB] = hk_start[h].path[PUB]

\* C32: with runs of install_host_keys interleaved in any way on one base
\* directory, all with the same keys, no run fails, and once the runs have
\* ended the installed private and public key files are those of the
\* supplied keys and neither .tmp_priv nor .tmp_pub is left.
C32_ConcurrentInstallsSucceed ==
    /\ \A h \in Helpers : hk_pc[h] # "failed"
    /\ (NoRunUnderWay /\ SomeRunOk) =>
          /\ cmp(PRIV, PRIV) /\ FileAt(PRIV) = KeyFile(host_keys.private)
          /\ cmp(PUB, PUB) /\ FileAt(PUB) = KeyFile(host_keys.public)
          /\ NoTmpLeft

\* C33, as stated: with runs one after another, a run that succeeded leaves
\* the installed key files equal to the supplied key texts and no temporary
\* file, and a run that found them installed does not replace them.
C33_InstalledEqualsSupplied ==
    /\ (NoRunUnderWay /\ SomeRunOk) =>
          /\ Exists(PRIV) /\ FileAt(PRIV) = host_keys.private
          /\ Exists(PUB) /\ FileAt(PUB) = host_keys.public
          /\ NoTmpLeft
    /\ \A h \in Helpers : (hk_pc[h] = "done" /\ StartedInstalled(h)) => NotReplaced(h)

\* C33: with runs one after another, every run succeeds; a run that
\* succeeded leaves each installed key file holding the supplied key text
\* followed by the one empty line the here-document adds, and leaves no
\* temporary file; a run that found these files installed does not replace
\* them, so the directory after it is the directory before it.
C33_InstalledIsHereDocOfSupplied ==
    /\ \A h \in Helpers : hk_pc[h] # "failed"
    /\ (NoRunUnderWay /\ SomeRunOk) =>
          /\ Exists(PRIV) /\ FileAt(PRIV) = host_keys.private \o <<"">>
          /\ Exists(PUB) /\ FileAt(PUB) = host_keys.public \o <<"">>
          /\ NoTmpLeft
    /\ \A h \in Helpers :
          (hk_pc[h] = "done" /\ StartedInstalled(h)) =>
              /\ NotReplaced(h)
              /\ NoRunUnderWay =>
                    \A path \in HostKeyPaths :
                        /\ (hk_start[h].path[path] # NoIno /\ path \in {PRIV, PUB})
                              => hk_ino[hk_path[path]] = hk_start[h].ino[hk_start[h].path[path]]

\* A second run in a row has succeeded on the files the first one
\* installed, without replacing them.
C33_Witness ==
    \E h \in Helpers :
        /\ hk_runs[h] = 2 /\ hk_pc[h] = "done" /\ hk_res[h] = "Ok"
        /\ StartedInstalled(h) /\ NotReplaced(h)
        /\ hk_start[h].path[TMP_PRIV] = NoIno
        /\ NoTmpLeft

(***************************************************************************)
(* Properties of the staging directory.                                    *)
(***************************************************************************)
\* C34: in every state of the staging directory, whatever ensure_bundle
\* calls ran and however their installs ended, when bundle/VERSION holds a
\* version V and bundle/ARCH an arch A, bundle/sshd is the complete server
\* binary of version V for arch A.
C34_MarkersMatchBinary ==
    (bundle.VERSION # NoFile /\ bundle.ARCH # NoFile) =>
        bundle.sshd = <<"sshd", bundle.VERSION, bundle.ARCH>>

(***************************************************************************)
(* Properties of the server processes of one base directory.               *)
(***************************************************************************)
LiveServers == {p \in Pids : Alive(p)}

\* C35: whatever the order and interleaving of the helper runs on one base
\* directory, at most one server process started from it is alive at any
\* time.
C35_AtMostOneLiveServer == Cardinality(LiveServers) <= 1

(***************************************************************************)
(* Properties of the port of a Ready outcome.                              *)
(***************************************************************************)
\* C36: for every 16-bit random value the port the launch loop chooses lies
\* in 20000..64999, so it is a valid u16, and the helper's parse of the port
\* a Ready outcome emits does not fail: it yields the chosen port.
C36_PortInRangeAndParses ==
    /\ port_pc \in {"Ready", "parse", "done"} =>
          (chosen_port \in 20000..64999 /\ chosen_port \in 0..65535)
    /\ port_pc = "done" => port_result = Some(chosen_port)

\* The largest random value: 65535 gives port 40535, which is emitted and
\* parsed.
C36_Witness ==
    /\ urandom = 65535 /\ chosen_port = 40535
    /\ port_output = <<"4", "0", "5", "3", "5", NL>>
    /\ port_result = Some(40535) /\ port_pc = "done"

(***************************************************************************)
(* Properties of the namespace of the resolved target.                     *)
(***************************************************************************)
\* The context the kubectl commands of the run use: the HostSpec's context
\* when it gives one (--context), the kubeconfig's current context when it
\* gives none.
ContextInUse == IF hs.context # None THEN hs.context[1] ELSE kubeconfig.current

\* C37: the namespace of the resolved target is the HostSpec's namespace
\* when it has one; otherwise the default namespace of the context in use;
\* otherwise the empty string.  A context is validated only when the
\* HostSpec gives one.
C37_NamespaceOfContextInUse ==
    /\ (ns_pc = "done" /\ ns_res = "Ok") =>
          target_namespace =
              IF hs.namespace # None THEN hs.namespace[1]
              ELSE IF ContextInUse \in DOMAIN kubeconfig.contexts
                      /\ kubeconfig.contexts[ContextInUse] # ""
                   THEN kubeconfig.contexts[ContextInUse]
                   ELSE ""
    /\ validated = IF hs.context # None /\ ns_pc # "ensure_context"
                   THEN {hs.context[1]} ELSE {}

(***************************************************************************)
(* Properties of the errors of choose_pod_for_<kind>.                      *)
(***************************************************************************)
\* C38: when a deployment or job resolves to no pods, the error names the
\* label selector that was used and lists the ready resources.
C38_NoPodsErrorHasSelectorAndReadyList ==
    (choose_pc = "done" /\ Contains(choose_res.err, <<"no pods found for ">>)) =>
        /\ ~choose_res.ok
        /\ Contains(choose_res.err, <<wl.selector>>)
        /\ wl.ready # <<>> =>
              Contains(choose_res.err,
                       join([n \in 1..Len(wl.ready) |-> <<wl.ready[n]>>], ", "))

(***************************************************************************)
(* Properties of exec_with_input.                                          *)
(***************************************************************************)
ExecCalled(c) == \E n \in 1..Len(ex_calls) : ex_calls[n] = c
ExecSpawned == ex_child # "none"

\* C39: exec_with_input closes the subprocess's stdin before it waits for
\* it; it waits for a subprocess it spawned even when writing the input
\* failed; it fails when the exit status is not zero or the write failed;
\* and when both happened the error reports the failed exit with the stdin
\* error attached, not the stdin error alone.
C39_StdinClosedThenWaited ==
    /\ ExecCalled("wait_with_output") =>
          \E m, n \in 1..Len(ex_calls) :
              m < n /\ ex_calls[m] = "drop stdin" /\ ex_calls[n] = "wait_with_output"
    /\ ex_pc = "wait_with_output" => ex_stdin = "closed"
    /\ (ex_pc = "done" /\ ExecSpawned) => ExecCalled("wait_with_output")
    /\ (ex_pc = "done" /\ (ex_status # 0 \/ input_err # None)) => ex_res.kind = "Err"
    /\ (ex_pc = "done" /\ ex_child = "reaped" /\ ex_status # 0 /\ input_err # None) =>
          /\ Contains(ex_res.err, <<"kubectl exec failed">>)
          /\ Contains(ex_res.err, <<input_err[1]>>)
          /\ ~Contains(ex_res.err, <<"kubectl exec stdin error:">>)

\* The subprocess exited with status 1 before all the input was written:
\* the write failed, stdin was closed, the subprocess was waited for, and
\* the error has both.
C39_Witness ==
    /\ ex_pc = "done" /\ ex_child = "reaped" /\ ex_status = 1
    /\ input_err = Some(BrokenPipe)
    /\ ex_calls = <<"spawn", "write_all", "drop stdin", "wait_with_output">>
    /\ ex_res.err = Err(<<"kubectl exec failed", "(stdin error:", "broken pipe", ")">>)

(***************************************************************************)
(* Properties of merge_config on the user's own lines.                     *)
(***************************************************************************)
IsMarker(line) == trim(line) \in {<<START_MARKER>>, <<END_MARKER>>}
\* The first end marker of the lines, 0 when there is none.
FirstEnd(ls) ==
    IF \E m \in 1..Len(ls) : trim(ls[m]) = <<END_MARKER>>
    THEN CHOOSE m \in 1..Len(ls) :
            /\ trim(ls[m]) = <<END_MARKER>>
            /\ \A n \in 1..(m - 1) : trim(ls[n]) # <<END_MARKER>>
    ELSE 0
\* The user's own lines: the lines that are not blank, are no marker and
\* stand in no block that a start marker opens and an end marker closes.
RECURSIVE own_lines(_)
own_lines(ls) ==
    IF ls = <<>> THEN <<>>
    ELSE IF trim(Head(ls)) = <<START_MARKER>> /\ FirstEnd(ls) # 0
    THEN own_lines(SubSeq(ls, FirstEnd(ls) + 1, Len(ls)))
    ELSE IF trim(Head(ls)) = <<>> \/ IsMarker(Head(ls)) THEN own_lines(Tail(ls))
    ELSE <<trim(Head(ls))>> \o own_lines(Tail(ls))
OwnLines(text) == own_lines(lines(text, bare_cr))
\* `sub` is what is left of `seq` when some of its members are taken out.
RECURSIVE IsSubsequence(_, _)
IsSubsequence(sub, seq) ==
    IF sub = <<>> THEN TRUE
    ELSE IF seq = <<>> THEN FALSE
    ELSE IF Head(sub) = Head(seq) THEN IsSubsequence(Tail(sub), Tail(seq))
    ELSE IsSubsequence(sub, Tail(seq))

\* C40: a merge keeps, in their order, all the lines of the configuration
\* that are not blank and not part of a marker-delimited block: the config
\* file an install writes has every one of the user's own lines of the file
\* it read.
C40_OwnLinesKept ==
    [][config' # config => IsSubsequence(OwnLines(config), OwnLines(config'))]_vars

====
